---------------------------- MODULE Spec2Model ----------------------------
(***************************************************************************)
(* A model of the timesheet extraction pipeline of OpsClad                 *)
(* (src/scripts): the identity helpers, the tabular, document-text and     *)
(* grid extractors, and the batch orchestrator                             *)
(* process_timesheet_extraction.                                           *)
(*                                                                         *)
(* Strings the code takes apart (sender addresses, activity labels, hours  *)
(* tokens) are sequences of one-character strings, so that find, slice,    *)
(* strip, lower, upper, split and float are computed as Python computes    *)
(* them.  A "MM/DD/YYYY" string is the record [k |-> "mdy", m, d, y],       *)
(* whether or not it names a real day.                                     *)
(* Hours are integers counting hundredths of an hour (800 is 8.00).        *)
(***************************************************************************)
EXTENDS Integers, Sequences, FiniteSets, TLC

(***************************************************************************)
(* Characters and Python's str operations                                  *)
(***************************************************************************)
UpperLetters == <<"A","B","C","D","E","F","G","H","I","J","K","L","M",
                  "N","O","P","Q","R","S","T","U","V","W","X","Y","Z">>
LowerLetters == <<"a","b","c","d","e","f","g","h","i","j","k","l","m",
                  "n","o","p","q","r","s","t","u","v","w","x","y","z">>

\* str.lower() on one character
LowerChar(c) ==
    IF \E i \in 1..26 : UpperLetters[i] = c
    THEN LowerLetters[CHOOSE i \in 1..26 : UpperLetters[i] = c]
    ELSE c

\* str.upper() on one character
UpperChar(c) ==
    IF \E i \in 1..26 : LowerLetters[i] = c
    THEN UpperLetters[CHOOSE i \in 1..26 : LowerLetters[i] = c]
    ELSE c

StrLower(s) == [i \in 1..Len(s) |-> LowerChar(s[i])]
StrUpper(s) == [i \in 1..Len(s) |-> UpperChar(s[i])]

\* c in s
HasChar(s, c) == \E i \in 1..Len(s) : s[i] = c

\* s.find(c), 1-based; 0 when c does not occur
Find(s, c) ==
    IF HasChar(s, c)
    THEN CHOOSE i \in 1..Len(s) : s[i] = c /\ \A j \in 1..(i-1) : s[j] # c
    ELSE 0

\* s.strip() for blanks
StrStrip(s) ==
    IF \A i \in 1..Len(s) : s[i] = " " THEN <<>>
    ELSE LET a == CHOOSE i \in 1..Len(s) :
                      s[i] # " " /\ \A j \in 1..(i-1) : s[j] = " "
             b == CHOOSE i \in 1..Len(s) :
                      s[i] # " " /\ \A j \in (i+1)..Len(s) : s[j] = " "
         IN  SubSeq(s, a, b)

\* s.split(c)[0]: the text before the first c, the whole of s without one
SplitFirst(s, c) ==
    IF HasChar(s, c) THEN SubSeq(s, 1, Find(s, c) - 1) ELSE s

\* sub in s (substring test)
Contains(s, sub) ==
    \E i \in 0..(Len(s) - Len(sub)) :
        \A j \in 1..Len(sub) : s[i + j] = sub[j]

(***************************************************************************)
(* Identity helpers of process_timesheets.py                               *)
(***************************************************************************)
\* clean_email: the address between < and > when both occur, else the
\* whole string; stripped and lower-cased
clean_email(email_str) ==
    IF HasChar(email_str, "<") /\ HasChar(email_str, ">")
    THEN StrLower(StrStrip(SubSeq(email_str, Find(email_str, "<") + 1,
                                             Find(email_str, ">") - 1)))
    ELSE StrLower(StrStrip(email_str))

\* Values the code handles dynamically are tagged records: None (or NaN, or
\* an absent key), a string, a number.
NoneVal == [k |-> "none"]
Str(s) == [k |-> "str", s |-> s]
Num(n) == [k |-> "num", n |-> n]

\* Python truthiness of a tagged value
Truthy(v) ==
    CASE v.k = "none" -> FALSE
      [] v.k = "str"  -> v.s # <<>>
      [] v.k = "num"  -> v.n # 0
      [] OTHER        -> TRUE

\* employee_mapping is a dict in insertion order: a sequence of entries
\* [email, name, employee_id, emp_id, projects] with distinct emails, where
\* projects is a sequence of [client, project] items (client the key, project
\* the 'project' value of the details).  Absent keys hold NoneVal.
\* employee_mapping.get(key, {}): in the empty dict every key is absent
EmptyInfo == [name |-> NoneVal, employee_id |-> NoneVal, emp_id |-> NoneVal,
              projects |-> <<>>]
MapGet(employee_mapping, key) ==
    IF \E i \in 1..Len(employee_mapping) : employee_mapping[i].email = key
    THEN LET e == employee_mapping[CHOOSE i \in 1..Len(employee_mapping) :
                                       employee_mapping[i].email = key]
         IN  [name |-> e.name, employee_id |-> e.employee_id,
              emp_id |-> e.emp_id, projects |-> e.projects]
    ELSE EmptyInfo

\* "not employee_mapping" holds of None and of the empty dict: <<>>
get_employee_name(sender_email, employee_mapping) ==
    IF employee_mapping = <<>>
    THEN SplitFirst(sender_email, "@")
    ELSE LET clean_sender == clean_email(sender_email)
             info == MapGet(employee_mapping, clean_sender)
         IN  IF info.name.k # "none" THEN info.name.s ELSE clean_sender

get_employee_id(sender_email, employee_mapping) ==
    IF employee_mapping = <<>>
    THEN SplitFirst(sender_email, "@")
    ELSE LET clean_sender == clean_email(sender_email)
             employee_info == MapGet(employee_mapping, clean_sender)
             employee_id == IF Truthy(employee_info.employee_id)
                            THEN employee_info.employee_id
                            ELSE employee_info.emp_id
         IN  IF Truthy(employee_id) THEN employee_id.s ELSE clean_sender

(***************************************************************************)
(* Calendar dates: datetime.strptime / strftime / timedelta                *)
(***************************************************************************)
IsLeap(y) == (y % 4 = 0 /\ y % 100 # 0) \/ y % 400 = 0

DaysInMonth(y, m) ==
    CASE m \in {1, 3, 5, 7, 8, 10, 12} -> 31
      [] m \in {4, 6, 9, 11}           -> 30
      [] OTHER                         -> IF IsLeap(y) THEN 29 ELSE 28

\* what strptime accepts for the fields %m, %d, %Y
ValidDate(m, d, y) ==
    /\ m \in 1..12
    /\ y \in 1..9999
    /\ d \in 1..DaysInMonth(y, m)

\* date.weekday(): 0 is Monday, 6 is Sunday (Zeller's congruence)
Weekday(m, d, y) ==
    LET mm == IF m < 3 THEN m + 12 ELSE m
        yy == IF m < 3 THEN y - 1 ELSE y
        kk == yy % 100
        jj == yy \div 100
        h  == (d + ((13 * (mm + 1)) \div 5) + kk + (kk \div 4)
                 + (jj \div 4) + 5 * jj) % 7
    IN  (h + 5) % 7

days_of_week == <<"MON", "TUE", "WED", "THU", "FRI", "SAT", "SUN">>

\* strftime('%a').upper()
DayCode(m, d, y) == days_of_week[Weekday(m, d, y) + 1]

\* A string of the shape MM/DD/YYYY, a string of the shape YYYY-MM-DD, any
\* other text, and a datetime / Timestamp object.
Mdy(m, d, y) == [k |-> "mdy", m |-> m, d |-> d, y |-> y]
Iso(y, m, d) == [k |-> "iso", m |-> m, d |-> d, y |-> y]
Text(s) == [k |-> "text", s |-> s]
Stamp(m, d, y) == [k |-> "ts", m |-> m, d |-> d, y |-> y]

\* the canonical form: an MM/DD/YYYY string that names a real day
IsCanonicalDate(v) == v.k = "mdy" /\ ValidDate(v.m, v.d, v.y)

\* date + timedelta(days=1)
NextDay(v) ==
    IF v.d < DaysInMonth(v.y, v.m) THEN [v EXCEPT !.d = v.d + 1]
    ELSE IF v.m < 12 THEN [v EXCEPT !.d = 1, !.m = v.m + 1]
    ELSE [v EXCEPT !.d = 1, !.m = 1, !.y = v.y + 1]

RECURSIVE AddDays(_, _)
\* date + timedelta(days=i)
AddDays(v, i) == IF i = 0 THEN v ELSE AddDays(NextDay(v), i - 1)

(***************************************************************************)
(* float(): hours are kept in hundredths                                   *)
(***************************************************************************)
Digits == <<"0", "1", "2", "3", "4", "5", "6", "7", "8", "9">>
IsDigit(c) == \E i \in 1..10 : Digits[i] = c
DigitVal(c) == (CHOOSE i \in 1..10 : Digits[i] = c) - 1

RECURSIVE DigitsVal(_)
\* the value of a run of digits (0 for the empty run)
DigitsVal(s) ==
    IF s = <<>> THEN 0
    ELSE 10 * DigitsVal(SubSeq(s, 1, Len(s) - 1)) + DigitVal(s[Len(s)])

\* the token without a leading sign
Unsigned(tok) ==
    IF tok # <<>> /\ tok[1] \in {"-", "+"} THEN Tail(tok) ELSE tok

\* float(tok) does not raise ValueError: an optional sign, digits with at
\* most one point, at least one digit
FloatOk(tok) ==
    LET u == Unsigned(tok)
    IN  /\ \A i \in 1..Len(u) : IsDigit(u[i]) \/ u[i] = "."
        /\ Cardinality({i \in 1..Len(u) : u[i] = "."}) <= 1
        /\ \E i \in 1..Len(u) : IsDigit(u[i])

\* the value, in hundredths, of the unsigned token u whose point is at
\* position dot (0 without a point); tokens carry at most two decimals
Magnitude(u, dot) ==
    100 * DigitsVal(IF dot = 0 THEN u ELSE SubSeq(u, 1, dot - 1))
      + (IF dot = 0 \/ dot = Len(u) THEN 0
         ELSE IF dot + 1 = Len(u) THEN 10 * DigitVal(u[dot + 1])
         ELSE 10 * DigitVal(u[dot + 1]) + DigitVal(u[dot + 2]))

\* float(tok), in hundredths
FloatVal(tok) ==
    IF tok # <<>> /\ tok[1] = "-"
    THEN 0 - Magnitude(Tail(tok), Find(Tail(tok), "."))
    ELSE Magnitude(Unsigned(tok), Find(Unsigned(tok), "."))

(***************************************************************************)
(* Tabular extractor: excelextract.py                                      *)
(*                                                                         *)
(* A table is [readable, headers, rows]: headers is the set of column      *)
(* names after df.columns.str.strip().str.lower(); a row holds one cell    *)
(* per standard column (the cell of the first alias present).  A cell is   *)
(* NoneVal (NaN), Num(n), Str(chars), a date string or a Stamp; client and *)
(* project cells are Name(v), v a string the code never takes apart.       *)
(***************************************************************************)
Name(v) == [k |-> "name", v |-> v]

column_mapping ==
    [date     |-> <<"date", "day_date", "work_date">>,
     day      |-> <<"day", "day_of_week", "weekday">>,
     client   |-> <<"client", "client_name", "company">>,
     project  |-> <<"project", "project_name">>,
     activity |-> <<"activity", "activity_type", "work/pto", "type",
                    "activity (work/pto)">>,
     hours    |-> <<"hours", "hours_worked", "time", "duration">>]

\* actual_columns: each standard name some header is an alias of, with the
\* first such alias
ActualColumns(headers) ==
    LET found(std) == {i \in 1..Len(column_mapping[std]) :
                           column_mapping[std][i] \in headers}
        first(std) == CHOOSE i \in found(std) : \A j \in found(std) : i <= j
    IN  [std \in {x \in DOMAIN column_mapping : found(x) # {}} |->
             column_mapping[std][first(std)]]

required_columns == {"date", "hours"}

\* an alternative of MissingColumns that requires the date column only
MissingColumnsDateOnly(headers) == {"date"} \ DOMAIN ActualColumns(headers)

\* missing_columns
MissingColumns(headers) == required_columns \ DOMAIN ActualColumns(headers)

\* pd.isna(cell)
IsNa(cell) == cell.k = "none"

\* pd.to_datetime(string) parses the string: a real day written MM/DD/YYYY
\* or YYYY-MM-DD
ToDatetimeOk(cell) ==
    cell.k \in {"mdy", "iso"} /\ ValidDate(cell.m, cell.d, cell.y)

\* format_date: NaN gives "", a datetime / Timestamp is formatted, a string
\* is parsed and formatted, and returned as it is when parsing fails
format_date(date_value) ==
    CASE IsNa(date_value)        -> Text(<<>>)
      [] date_value.k = "ts"     -> Mdy(date_value.m, date_value.d, date_value.y)
      [] ToDatetimeOk(date_value) -> Mdy(date_value.m, date_value.d, date_value.y)
      [] OTHER                   -> date_value

\* get_day_from_date: strptime(date_str, '%m/%d/%Y') and '%a' in upper
\* case, "Unknown" for the empty string and for a string strptime rejects
get_day_from_date(date_str) ==
    IF IsCanonicalDate(date_str)
    THEN DayCode(date_str.m, date_str.d, date_str.y)
    ELSE "Unknown"

\* the row is skipped before anything is extracted from it (line 95):
\* NaN in date or hours, str(date_value).lower() == 'total', hours_value == 0
RowSkipped(row) ==
    \/ IsNa(row.date)
    \/ IsNa(row.hours)
    \/ (row.date.k = "text"
           /\ StrLower(row.date.s) = <<"t", "o", "t", "a", "l">>)
    \/ (row.hours.k = "num" /\ row.hours.n = 0)

\* float(hours_value) raises, which the per-row handler catches
RowRaises(row) == row.hours.k = "str" /\ ~FloatOk(row.hours.s)

\* float(hours_value)
RowHours(row) ==
    IF row.hours.k = "num" THEN row.hours.n ELSE FloatVal(row.hours.s)

PTO == <<"P", "T", "O">>

\* a variant of line 111 that tests the activity for equality with 'PTO'
RowActivityExact(row, cols) ==
    IF "activity" \in cols /\ ~IsNa(row.activity)
          /\ StrStrip(StrUpper(row.activity.s)) = PTO
    THEN "PTO" ELSE "WORK"

\* the activity put in the entry: the cell in upper case and stripped,
\* "WORK" without a column or a value; PTO if it contains 'PTO', else WORK
RowActivity(row, cols) ==
    IF "activity" \in cols /\ ~IsNa(row.activity)
          /\ Contains(StrStrip(StrUpper(row.activity.s)), PTO)
    THEN "PTO" ELSE "WORK"

\* entry_data of a row that is neither skipped nor failing
RowEntry(row, cols) ==
    LET date_str == format_date(row.date)
    IN  [date     |-> date_str,
         day      |-> get_day_from_date(date_str),
         client   |-> IF "client" \in cols /\ ~IsNa(row.client)
                      THEN row.client.v ELSE "Unknown Client",
         project  |-> IF "project" \in cols /\ ~IsNa(row.project)
                      THEN row.project.v ELSE "Unknown Project",
         hours    |-> RowHours(row),
         activity |-> RowActivity(row, cols)]

\* the entry goes to pto_entries or to work_entries (lines 127-134)
ExcelAdd(acc, entry_data) ==
    IF entry_data.activity = "PTO"
    THEN [acc EXCEPT !.pto_entries = Append(@, entry_data),
                     !.total_hours = @ + entry_data.hours]
    ELSE [acc EXCEPT !.work_entries = Append(@, entry_data),
                     !.total_hours = @ + entry_data.hours]

\* an alternative of ExcelRow in which a failing row empties the
\* accumulators
ExcelRowAborting(acc, row, cols) ==
    IF RowSkipped(row) THEN acc
    ELSE IF RowRaises(row) THEN [work_entries |-> <<>>, pto_entries |-> <<>>,
                                 total_hours |-> 0]
    ELSE ExcelAdd(acc, RowEntry(row, cols))

\* one iteration of the row loop (lines 89-139) on the accumulators
ExcelRow(acc, row, cols) ==
    IF RowSkipped(row) \/ RowRaises(row) THEN acc
    ELSE ExcelAdd(acc, RowEntry(row, cols))

ExcelAcc0 == [work_entries |-> <<>>, pto_entries |-> <<>>, total_hours |-> 0]

RECURSIVE ExcelRows(_, _)
\* the whole row loop
ExcelRows(rows, cols) ==
    IF rows = <<>> THEN ExcelAcc0
    ELSE ExcelRow(ExcelRows(SubSeq(rows, 1, Len(rows) - 1), cols),
                  rows[Len(rows)], cols)

\* client_name of the result (line 142)
ExcelClientName(acc) ==
    IF acc.work_entries # <<>> THEN acc.work_entries[1].client
    ELSE IF acc.pto_entries # <<>> THEN acc.pto_entries[1].client
    ELSE "Unknown Client"

\* extract_timesheet_data_from_excel returns None: the file cannot be read,
\* the sheet is empty, or a required column is missing
ExcelFails(table) ==
    \/ ~table.readable
    \/ table.rows = <<>>
    \/ MissingColumns(table.headers) # {}

\* the dictionary built from the accumulators (lines 144-150)
ExcelDict(acc) ==
    [work_entries |-> acc.work_entries,
     pto_entries  |-> acc.pto_entries,
     client_name  |-> ExcelClientName(acc),
     total_hours  |-> acc.total_hours]

\* the dictionary extract_timesheet_data_from_excel returns otherwise
ExcelResult(table) ==
    ExcelDict(ExcelRows(table.rows, DOMAIN ActualColumns(table.headers)))

\* validate_excel_timesheet: at least two of the indicator words occur in
\* some header.  HeaderWords gives, for each header of the model, the
\* indicator words that are substrings of it.
timesheet_indicators ==
    {"date", "hours", "day", "client", "project", "activity", "time"}

HeaderWords(h) ==
    CASE h = "date"         -> {"date"}
      [] h = "work_date"    -> {"date"}
      [] h = "day_date"     -> {"date", "day"}
      [] h = "hours"        -> {"hours"}
      [] h = "hours_worked" -> {"hours"}
      [] h = "time"         -> {"time"}
      [] h = "day"          -> {"day"}
      [] h = "weekday"      -> {"day"}
      [] h = "client"       -> {"client"}
      [] h = "project"      -> {"project"}
      [] h = "activity"     -> {"activity"}
      [] OTHER              -> {}

validate_excel_timesheet(table) ==
    /\ table.readable
    /\ table.rows # <<>>
    /\ Cardinality({w \in timesheet_indicators :
                       \E h \in table.headers : w \in HeaderWords(h)}) >= 2

(***************************************************************************)
(* Document-text extractor: pdfextract.py                                  *)
(*                                                                         *)
(* The text of a PDF is [hasText, paradigm, items]: items are the matches  *)
(* the three patterns can find, in text order.  An item of shape "work"    *)
(* is a match of work_pattern, "alt" of alt_work_pattern, "pto" of         *)
(* pto_pattern; its date is the \d{2}/\d{2}/\d{4} token, its day the       *)
(* weekday token (any case) and its hours the [\d.]+ token, as characters. *)
(***************************************************************************)
DayChars ==
    [MON |-> <<"M", "O", "N">>, TUE |-> <<"T", "U", "E">>,
     WED |-> <<"W", "E", "D">>, THU |-> <<"T", "H", "U">>,
     FRI |-> <<"F", "R", "I">>, SAT |-> <<"S", "A", "T">>,
     SUN |-> <<"S", "U", "N">>]

\* raw_day.upper()
RawDayUpper(raw_day) ==
    CHOOSE c \in DOMAIN DayChars : DayChars[c] = StrUpper(raw_day)

\* strptime(raw_date, "%m/%d/%Y") then strftime, raw_date on ValueError
PdfDate(raw_date) ==
    IF ValidDate(raw_date.m, raw_date.d, raw_date.y)
    THEN Mdy(raw_date.m, raw_date.d, raw_date.y)
    ELSE raw_date

\* extract_client_name
extract_client_name(text) ==
    IF text.paradigm THEN Name("Paradigm Technology Consulting LLC") ELSE NoneVal

ItemsOf(text, shape) == SelectSeq(text.items, LAMBDA it : it.shape = shape)

\* the entry of one work_pattern or alt_work_pattern match
PdfWorkEntry(it, client_name) ==
    [date     |-> PdfDate(it.date),
     day      |-> RawDayUpper(it.day),
     hours    |-> FloatVal(it.hours),
     activity |-> "Work",
     client   |-> client_name]

\* the entry of one pto_pattern match; it has no hours yet
PdfPtoEntry(it, client_name) ==
    [date     |-> PdfDate(it.date),
     day      |-> RawDayUpper(it.day),
     hours    |-> NoneVal,
     activity |-> "PTO",
     client   |-> client_name]

\* an alternative of PdfWorkItems that goes through the matches of
\* alt_work_pattern in every case
PdfWorkItemsBoth(text) == ItemsOf(text, "work") \o ItemsOf(text, "alt")

\* the matches the work loops go through: those of work_pattern, and those
\* of alt_work_pattern only when work_pattern gave no entry
PdfWorkItems(text) ==
    IF ItemsOf(text, "work") # <<>> THEN ItemsOf(text, "work")
    ELSE ItemsOf(text, "alt")

\* float(hours) raises ValueError in one of the work loops
PdfRaises(text) ==
    \E i \in 1..Len(PdfWorkItems(text)) : ~FloatOk(PdfWorkItems(text)[i].hours)

\* extract_timesheet_entries, when it does not raise
extract_timesheet_entries(text, client_name) ==
    [work_entries |-> [i \in 1..Len(PdfWorkItems(text)) |->
                          PdfWorkEntry(PdfWorkItems(text)[i], client_name)],
     pto_entries  |-> [i \in 1..Len(ItemsOf(text, "pto")) |->
                          PdfPtoEntry(ItemsOf(text, "pto")[i], client_name)]]

\* get_employee_info_from_db: the row of the employees table for the
\* address, {} without one (or when the query raises)
NoEmployeeInfo == [employee_name |-> NoneVal, employee_number |-> NoneVal]
get_employee_info_from_db(db, sender_email) ==
    IF sender_email \in DOMAIN db THEN db[sender_email] ELSE NoEmployeeInfo

\* get_pto_hours_from_db: answer is what the query gives, the hours value
\* of the first row (a number or a text), or something else: the query
\* raised, no row, a row without hours, a null.  float(hours) of the value
\* is returned, and 8.0 in every other case (float(None) and float of a
\* text that is no number raise inside the handler's try)
DefaultPtoHours == 800
get_pto_hours_from_db(answer) ==
    IF answer.k = "num" THEN answer.n
    ELSE IF answer.k = "str" /\ FloatOk(answer.s) THEN FloatVal(answer.s)
    ELSE DefaultPtoHours

\* an alternative of PtoHoursFor that asks the database in every case
PtoHoursAsked(employee_info, ptoAnswer) == get_pto_hours_from_db(ptoAnswer)

\* the default of process_timesheet_pdf's sender_email parameter
DefaultSender ==
    <<"f","a","r","a","h",".","d","a","t","a","c","l","a","d","@",
      "g","m","a","i","l",".","c","o","m">>

\* the hours given to every PTO entry (lines 294-313): asked of the
\* database when the employee has a number, else 8.0
PtoHoursFor(employee_info, ptoAnswer) ==
    IF Truthy(employee_info.employee_number)
    THEN get_pto_hours_from_db(ptoAnswer)
    ELSE DefaultPtoHours

\* the dictionary process_timesheet_pdf returns (lines 320-332)
PdfDict(employee_info, client_name, entries, pto_hours) ==
    [empty         |-> FALSE,
     employee_info |-> employee_info,
     client_name   |-> client_name,
     work_entries  |-> entries.work_entries,
     pto_entries   |-> [i \in 1..Len(entries.pto_entries) |->
                          [entries.pto_entries[i] EXCEPT !.hours = pto_hours]]]

\* process_timesheet_pdf, when extract_timesheet_entries does not raise:
\* {} (here [empty |-> TRUE]) without text
process_timesheet_pdf(text, sender_email, db, ptoAnswer) ==
    IF ~text.hasText THEN [empty |-> TRUE]
    ELSE PdfDict(get_employee_info_from_db(db, sender_email),
                 extract_client_name(text),
                 extract_timesheet_entries(text, extract_client_name(text)),
                 PtoHoursFor(get_employee_info_from_db(db, sender_email),
                             ptoAnswer))

(***************************************************************************)
(* Grid extractor: pngextract.py                                           *)
(*                                                                         *)
(* The OCR text is [ranges, leave, dayTotalHrs, dayTotal, fallback]:       *)
(* ranges[j] is the first date of the match of date pattern j (a           *)
(* DD-MM-YYYY token, Dmy(d, m, y)) or NoneVal; leave, dayTotalHrs and      *)
(* dayTotal are Row(the seven numbers) of the match of the Leave/PTO row   *)
(* and of the two Day Total patterns, or NoneVal without a match; fallback *)
(* is Row(the numbers) of the first line with at least five decimals       *)
(* after the weekday header, or NoneVal.  A \d+\.?\d* token always         *)
(* converts, so the numbers are given as hundredths.                       *)
(***************************************************************************)
\* a match with its captured numbers, and "matched at all"
Row(v) == [k |-> "row", v |-> v]
Dmy(d, m, y) == [k |-> "dmy", m |-> m, d |-> d, y |-> y]
Matched(x) == x.k # "none"

\* an alternative of GridStartDate that takes 01/01/2024 for a matched
\* date strptime refuses
GridStartDateLenient(ocr) ==
    IF \E j \in 1..Len(ocr.ranges) : Matched(ocr.ranges[j])
    THEN Mdy(1, 1, 2024) ELSE NoneVal

\* the parsed first date of the first pattern whose match strptime accepts
GridStartDate(ocr) ==
    LET ok(j) == Matched(ocr.ranges[j])
                    /\ ValidDate(ocr.ranges[j].m, ocr.ranges[j].d, ocr.ranges[j].y)
        good == {j \in 1..Len(ocr.ranges) : ok(j)}
    IN  IF good = {} THEN NoneVal
        ELSE LET j == CHOOSE j \in good : \A i \in good : j <= i
             IN  Mdy(ocr.ranges[j].m, ocr.ranges[j].d, ocr.ranges[j].y)

SeymourWhyteConnect ==
    <<"S","e","y","m","o","u","r"," ","W","h","y","t","e"," ",
      "C","o","n","n","e","c","t">>

RECURSIVE GridLeaveSameDay(_, _, _, _)
\* an alternative of GridLeaveFrom that dates every column start_date
GridLeaveSameDay(hours_values, start_date, i, acc) ==
    IF i > Len(hours_values) THEN acc
    ELSE GridLeaveSameDay(
             hours_values, start_date, i + 1,
             IF hours_values[i] > 0
                   /\ start_date \notin {acc[n].date : n \in 1..Len(acc)}
             THEN Append(acc, [date     |-> start_date,
                               day      |-> days_of_week[i],
                               hours    |-> hours_values[i],
                               type     |-> "Leave",
                               activity |-> "PTO"])
             ELSE acc)

RECURSIVE GridLeaveFrom(_, _, _, _)
\* the loop over the Leave columns from column i on: pto_entries so far in
\* acc, a column with hours > 0 whose date is not yet in pto_dates is added
GridLeaveFrom(hours_values, start_date, i, acc) ==
    IF i > Len(hours_values) THEN acc
    ELSE LET date_str == AddDays(start_date, i - 1)
             seen == {acc[n].date : n \in 1..Len(acc)}
             next == IF hours_values[i] > 0 /\ date_str \notin seen
                     THEN Append(acc, [date     |-> date_str,
                                       day      |-> days_of_week[i],
                                       hours    |-> hours_values[i],
                                       type     |-> "Leave",
                                       activity |-> "PTO"])
                     ELSE acc
         IN  GridLeaveFrom(hours_values, start_date, i + 1, next)

\* pto_entries: results["PTO Data"]
GridPto(ocr) ==
    IF Matched(ocr.leave) /\ Matched(GridStartDate(ocr))
    THEN GridLeaveFrom(ocr.leave.v, GridStartDate(ocr), 1, <<>>)
    ELSE <<>>

\* the row the WORK entries are read from: the first Day Total pattern that
\* matches, else the fallback line; NoneVal without a start date or a row
GridWorkRow(ocr) ==
    IF ~Matched(GridStartDate(ocr)) THEN NoneVal
    ELSE IF Matched(ocr.dayTotalHrs) THEN ocr.dayTotalHrs
    ELSE IF Matched(ocr.dayTotal) THEN ocr.dayTotal
    ELSE ocr.fallback

\* an alternative of GridWorkEntry that dates column i one day later
GridWorkEntryShifted(hours_values, start_date, i) ==
    [date     |-> AddDays(start_date, i),
     day      |-> days_of_week[i],
     hours    |-> hours_values[i],
     activity |-> "Work"]

\* one item of results["Work Entries"]
GridWorkEntry(hours_values, start_date, i) ==
    [date     |-> AddDays(start_date, i - 1),
     day      |-> days_of_week[i],
     hours    |-> hours_values[i],
     activity |-> "Work"]

RECURSIVE GridWorkFromAll(_, _, _, _)
\* an alternative of GridWorkFrom that does not look at pto_dates
GridWorkFromAll(hours_values, start_date, pto_dates, i) ==
    IF i > 7 \/ i > Len(hours_values) THEN <<>>
    ELSE IF hours_values[i] > 0
         THEN <<GridWorkEntry(hours_values, start_date, i)>>
                 \o GridWorkFromAll(hours_values, start_date, pto_dates, i + 1)
         ELSE GridWorkFromAll(hours_values, start_date, pto_dates, i + 1)

RECURSIVE GridWorkFrom(_, _, _, _)
\* the loop over hours_values[:7] from column i on: a column gives an entry
\* when its date is not a PTO date and its hours are above zero
GridWorkFrom(hours_values, start_date, pto_dates, i) ==
    IF i > 7 \/ i > Len(hours_values) THEN <<>>
    ELSE IF AddDays(start_date, i - 1) \notin pto_dates /\ hours_values[i] > 0
         THEN <<GridWorkEntry(hours_values, start_date, i)>>
                 \o GridWorkFrom(hours_values, start_date, pto_dates, i + 1)
         ELSE GridWorkFrom(hours_values, start_date, pto_dates, i + 1)

\* results["Work Entries"]
GridWork(ocr) ==
    IF Matched(GridWorkRow(ocr))
    THEN GridWorkFrom(GridWorkRow(ocr).v, GridStartDate(ocr),
                      {GridPto(ocr)[n].date : n \in 1..Len(GridPto(ocr))}, 1)
    ELSE <<>>

RECURSIVE SumHours(_)
SumHours(entries) ==
    IF entries = <<>> THEN 0
    ELSE entries[1].hours + SumHours(Tail(entries))

\* results["Daily Hours"][day_key] = hours (lines 304-305, 348-349): the
\* item of the key "<day> <date>" is replaced where it is, a new key is put
\* at the end
DailyPut(daily, e) ==
    IF \E n \in 1..Len(daily) : daily[n].day = e.day /\ daily[n].date = e.date
    THEN [n \in 1..Len(daily) |->
             IF daily[n].day = e.day /\ daily[n].date = e.date
             THEN [daily[n] EXCEPT !.hours = e.hours] ELSE daily[n]]
    ELSE Append(daily, [day |-> e.day, date |-> e.date, hours |-> e.hours])

RECURSIVE DailyFrom(_, _)
\* "Daily Hours" after the work loop: one put for each emitted entry
DailyFrom(work_entries, daily) ==
    IF work_entries = <<>> THEN daily
    ELSE DailyFrom(Tail(work_entries), DailyPut(daily, Head(work_entries)))

\* an alternative of GridDict whose total leaves the PTO hours out
GridDictWorkOnly(work_entries, pto_entries, start_date) ==
    [project      |-> SeymourWhyteConnect,
     daily_hours  |-> DailyFrom(work_entries, <<>>),
     work_entries |-> work_entries,
     total_hours  |-> SumHours(DailyFrom(work_entries, <<>>)),
     pto_data     |-> pto_entries,
     start_date   |-> start_date]

\* the results dictionary (lines 192-199, 280, 363-366): total_work is the
\* sum of the values of "Daily Hours", total_pto that of the PTO hours
GridDict(work_entries, pto_entries, start_date) ==
    [project      |-> SeymourWhyteConnect,
     daily_hours  |-> DailyFrom(work_entries, <<>>),
     work_entries |-> work_entries,
     total_hours  |-> SumHours(DailyFrom(work_entries, <<>>))
                         + SumHours(pto_entries),
     pto_data     |-> pto_entries,
     start_date   |-> start_date]

extract_timesheet_from_ocr_text(ocr) ==
    GridDict(GridWork(ocr), GridPto(ocr), GridStartDate(ocr))

(***************************************************************************)
(* Reconciliation helpers of process_timesheets.py                         *)
(***************************************************************************)
\* client_name.lower().replace(" technology consulting llc", "").strip()
\* for the client names of the model
ClientKey(client_name) ==
    CASE client_name = "Paradigm Technology Consulting LLC" ->
             <<"p","a","r","a","d","i","g","m">>
      [] client_name = "Acme" -> <<"a","c","m","e">>
      [] OTHER -> <<"u","n","k","n","o","w","n"," ","c","l","i","e","n","t">>

\* get_employee_project: projects.get(client_key, "Unknown Project"), with
\* "Unknown Project" without a mapping or a client name; what is found
\* under the client key is the details dictionary of the project
get_employee_project(sender_email, client_name, employee_mapping) ==
    IF employee_mapping = <<>> \/ ~Truthy(client_name)
    THEN Name("Unknown Project")
    ELSE LET projects == MapGet(employee_mapping, clean_email(sender_email)).projects
             client_key == ClientKey(client_name.v)
             hits == {i \in 1..Len(projects) : projects[i].client = client_key}
         IN  IF hits = {} THEN Name("Unknown Project")
             ELSE [k       |-> "details",
                   project |-> projects[CHOOSE i \in hits : TRUE].project]

\* str.title()
StrTitle(s) ==
    [i \in 1..Len(s) |->
        IF i = 1 \/ LowerChar(s[i - 1]) = UpperChar(s[i - 1])
        THEN UpperChar(s[i]) ELSE LowerChar(s[i])]

\* get_client_from_project: the projects of every employee of the mapping
\* are gone through in order; the first whose name matches gives the client
get_client_from_project(project_name, employee_mapping) ==
    LET wanted == StrLower(StrStrip(project_name))
        hit(i, j) == /\ employee_mapping[i].projects[j].project # <<>>
                     /\ StrLower(StrStrip(employee_mapping[i].projects[j].project))
                            = wanted
        all == UNION {{<<i, j>> : j \in 1..Len(employee_mapping[i].projects)} :
                         i \in 1..Len(employee_mapping)}
        hits == {p \in all : hit(p[1], p[2])}
        first == CHOOSE p \in hits :
                    \A q \in hits : p[1] < q[1] \/ (p[1] = q[1] /\ p[2] <= q[2])
    IN  IF hits = {} THEN Name("Unknown Client")
        ELSE Str(StrTitle(employee_mapping[first[1]].projects[first[2]].client))

(***************************************************************************)
(* The three per-document functions of process_timesheets.py.  Each        *)
(* returns [data, saved, pto]: extracted_data, the lists handed to         *)
(* save_timesheet_entries_to_supabase (none or one), and the PTO entries   *)
(* its extractor returned, which the function builds rows for and leaves   *)
(* out (the appends are commented out).                                    *)
(***************************************************************************)
NoData == [data |-> <<>>, saved |-> <<>>, pto |-> <<>>]

\* an alternative of Handed that calls the sink a second time
HandedTwice(entries_for_db, pto_entries) ==
    [data  |-> entries_for_db,
     saved |-> IF entries_for_db # <<>>
               THEN <<entries_for_db, entries_for_db>> ELSE <<>>,
     pto   |-> pto_entries]

\* the sink is called when entries_for_db is not empty
Handed(entries_for_db, pto_entries) ==
    [data  |-> entries_for_db,
     saved |-> IF entries_for_db # <<>> THEN <<entries_for_db>> ELSE <<>>,
     pto   |-> pto_entries]

Entry(date, day, hours, client, project, name, id, sender_email, activity) ==
    [date |-> date, day |-> day, hours |-> hours, client |-> client,
     project |-> project, employee_name |-> name, employee_id |-> id,
     sender_email |-> clean_email(sender_email), activity |-> activity]

\* the work_data rows of process_excel_timesheet (lines 323-337)
ExcelWorkData(work_entries, employee_name, employee_id, sender_email) ==
    [i \in 1..Len(work_entries) |->
        Entry(work_entries[i].date, work_entries[i].day, work_entries[i].hours,
              Name(work_entries[i].client), Name(work_entries[i].project),
              employee_name, employee_id, sender_email, "WORK")]

\* process_excel_timesheet: only the work entries are appended; the
\* appends of pto_data are commented out (lines 353-354)
process_excel_timesheet(table, sender_email, employee_mapping) ==
    IF ~validate_excel_timesheet(table) \/ ExcelFails(table) THEN NoData
    ELSE Handed(ExcelWorkData(ExcelResult(table).work_entries,
                              get_employee_name(sender_email, employee_mapping),
                              get_employee_id(sender_email, employee_mapping),
                              sender_email),
                ExcelResult(table).pto_entries)

\* the work_data rows of process_pdf_timesheet (lines 407-421)
PdfWorkData(work_entries, project_name, employee_name, employee_id, email) ==
    [i \in 1..Len(work_entries) |->
        Entry(work_entries[i].date, work_entries[i].day, work_entries[i].hours,
              work_entries[i].client, project_name, employee_name, employee_id,
              email, "WORK")]

\* process_pdf_timesheet from pdf_results on (lines 391-439): the name and
\* the number of employee_info are preferred to the mapping's
PdfEntries(pdf_results, sender_email, employee_mapping) ==
    IF pdf_results.empty THEN NoData
    ELSE Handed(
           PdfWorkData(
               pdf_results.work_entries,
               get_employee_project(sender_email, pdf_results.client_name,
                                    employee_mapping),
               IF Truthy(pdf_results.employee_info.employee_name)
               THEN pdf_results.employee_info.employee_name.s
               ELSE get_employee_name(sender_email, employee_mapping),
               IF Truthy(pdf_results.employee_info.employee_number)
               THEN pdf_results.employee_info.employee_number.s
               ELSE get_employee_id(sender_email, employee_mapping),
               sender_email),
           pdf_results.pto_entries)

\* process_pdf_timesheet: process_timesheet_pdf is called with the path
\* alone, so its sender_email is the default; an exception (float) is caught
\* and gives the empty list
process_pdf_timesheet(doc, sender_email, employee_mapping, db) ==
    IF doc.text.hasText /\ PdfRaises(doc.text) THEN NoData
    ELSE PdfEntries(process_timesheet_pdf(doc.text, DefaultSender, db,
                                          doc.ptoAnswer),
                    sender_email, employee_mapping)

\* extract_timesheet_data: None when the OCR call raises (or gives blank
\* text), else the grid extractor's result
OcrFails(doc) == ~doc.ocrOk

\* the work_data rows of process_image_timesheet (lines 521-540): one per
\* item of "Daily Hours" with hours > 0
ImageWorkData(daily_hours, client_name, project_name, name, id, email) ==
    [i \in 1..Len(daily_hours) |->
        Entry(daily_hours[i].date, daily_hours[i].day, daily_hours[i].hours,
              client_name, Str(project_name), name, id, email, "WORK")]

\* process_image_timesheet from timesheet_ocr_results on; the appends of
\* pto_main_data are commented out (lines 518-519)
ImageEntries(timesheet_ocr_results, sender_email, employee_mapping) ==
    Handed(ImageWorkData(
               SelectSeq(timesheet_ocr_results.daily_hours,
                         LAMBDA it : it.hours > 0),
               get_client_from_project(timesheet_ocr_results.project,
                                       employee_mapping),
               timesheet_ocr_results.project,
               get_employee_name(sender_email, employee_mapping),
               get_employee_id(sender_email, employee_mapping),
               sender_email),
           timesheet_ocr_results.pto_data)

process_image_timesheet(doc, sender_email, employee_mapping) ==
    IF OcrFails(doc) THEN NoData
    ELSE ImageEntries(extract_timesheet_from_ocr_text(doc.ocr),
                      sender_email, employee_mapping)

\* what the sink meets: no client, a call that raises, an insert that
\* returns no data, an insert that returns the rows
SinkOutcomes == {"noclient", "raises", "nodata", "saved"}

\* save_timesheet_entries_to_supabase (lines 45-78): False without a
\* client, True without entries, else whether the insert returned data;
\* an exception is caught and gives False
save_timesheet_entries_to_supabase(entries, sink) ==
    IF sink = "noclient" THEN FALSE
    ELSE IF entries = <<>> THEN TRUE
    ELSE sink = "saved"

\* the calls of the sink by attachment n, each with what it returned
SinkCallsOf(saved, sink, n) ==
    [i \in 1..Len(saved) |->
        [doc |-> n, entries |-> saved[i],
         ok |-> save_timesheet_entries_to_supabase(saved[i], sink)]]

\* an alternative of AfterSink in which a sink that fails leaves the
\* attachment without entries
AfterSinkChecked(out, sink) ==
    IF \E i \in 1..Len(out.saved) :
           ~save_timesheet_entries_to_supabase(out.saved[i], sink)
    THEN [out EXCEPT !.data = <<>>]
    ELSE out

\* the call of the sink is a statement on its own (lines 357-358, 442-443,
\* 543-544): what it returns is dropped, and it raises nothing
AfterSink(out, sink) == out

\* the dispatch on the file extension (lines 240-250)
ProcessDocument(doc, sender_email, employee_mapping, db) ==
    CASE doc.kind = "pdf"   -> process_pdf_timesheet(doc, sender_email,
                                                     employee_mapping, db)
      [] doc.kind = "image" -> process_image_timesheet(doc, sender_email,
                                                       employee_mapping)
      [] doc.kind = "excel" -> process_excel_timesheet(doc.table, sender_email,
                                                       employee_mapping)
      [] OTHER              -> NoData

(***************************************************************************)
(* Inputs of the model                                                     *)
(***************************************************************************)
MaxEmails == 2
MaxDocs == 2
MaxRows == 2
MaxItems == 2

JdAddr == <<"j", "d", "@", "c", "o">>
BobAddr == <<"b", "o", "b", "@", "c", "o">>

\* From headers: bare or "Name <address>", in any case
Senders ==
    {JdAddr,
     <<"J", "d", "@", "c", "o">>,
     <<"<">> \o JdAddr \o <<">">>,
     <<"B", "o", "b", " ", "<", "B", "o", "b", "@", "c", "o", ">">>}

MapEntry(email, name, id, projects) ==
    [email |-> email, name |-> Str(name), employee_id |-> Str(id),
     emp_id |-> NoneVal, projects |-> projects]

BobEntry == MapEntry(BobAddr, <<"B", "o", "b">>, <<"E", "2">>,
                     <<[client |-> <<"a", "c", "m", "e">>,
                        project |-> <<" ">> \o StrLower(SeymourWhyteConnect)]>>)
JdEntry == MapEntry(JdAddr, <<"J", "o", "e">>, <<"E", "1">>, <<>>)

Mappings == {<<>>, <<BobEntry>>, <<JdEntry, BobEntry>>}

\* the employees table: empty, or holding the row of the default address
Databases ==
    {<<>>,
     [a \in {DefaultSender} |->
         [employee_name   |-> Str(<<"F", "a", "r", "a", "h">>),
          employee_number |-> Str(<<"E", "9">>)]]}

Mon15 == Stamp(1, 15, 2024)
H800 == <<"8", ".", "0", "0">>
BadHours == <<"8", ".", ".", "0">>

\* a sheet row: Monday 01/15/2024 under a day column that says FRI, 8 hours,
\* no activity label
BaseRow ==
    [date |-> Mon15, hours |-> Num(800), activity |-> NoneVal,
     day |-> Str(<<"F", "R", "I">>), client |-> Name("Acme"),
     project |-> NoneVal]

FullHeaders == {"date", "day", "client", "activity", "hours"}

\* a work row and a PTO row for the same Monday
GoodTable ==
    [readable |-> TRUE, headers |-> FullHeaders,
     rows |-> <<BaseRow, [BaseRow EXCEPT !.activity = Str(<<"p", "t", "o">>)]>>]

\* a work_pattern match: Tuesday 01/16/2024, labelled Tue, 8.00 hours
BasePdfItem ==
    [shape |-> "work", date |-> Mdy(1, 16, 2024), day |-> <<"T", "u", "e">>,
     hours |-> H800]

PdfDoc(hasText, paradigm, items) ==
    [kind |-> "pdf", ptoAnswer |-> NoneVal,
     text |-> [hasText |-> hasText, paradigm |-> paradigm, items |-> items]]

GoodOcr ==
    [ranges      |-> <<Dmy(15, 1, 2024), NoneVal, NoneVal>>,
     leave       |-> Row(<<800, 0, 0, 0, 0, 0, 0>>),
     dayTotalHrs |-> Row(<<800, 800, 0, 0, 0, 0, 0>>),
     dayTotal    |-> NoneVal,
     fallback    |-> NoneVal]

\* the attachments of the batch
Docs ==
    {[kind |-> "excel", table |-> GoodTable],
     [kind |-> "excel", table |-> [GoodTable EXCEPT
                                      !.headers = {"date", "day", "client"}]],
     [kind |-> "excel", table |-> [readable |-> FALSE, headers |-> {},
                                   rows |-> <<>>]],
     PdfDoc(TRUE, TRUE,
            <<BasePdfItem,
              [shape |-> "pto", date |-> Mdy(1, 15, 2024),
               day |-> <<"M", "o", "n">>, hours |-> <<>>]>>),
     PdfDoc(FALSE, FALSE, <<>>),
     PdfDoc(TRUE, FALSE, <<[BasePdfItem EXCEPT !.hours = BadHours]>>),
     [kind |-> "image", ocrOk |-> TRUE, ocr |-> GoodOcr],
     [kind |-> "image", ocrOk |-> FALSE, ocr |-> GoodOcr],
     [kind |-> "other"]}

(***************************************************************************)
(* What a document is, for the statements about the batch                  *)
(***************************************************************************)
\* a document-level error: the file cannot be read, the table has no
\* date + hours columns, the text extraction raises, the OCR call fails
DocumentError(doc) ==
    CASE doc.kind = "excel" -> ~doc.table.readable
                                  \/ MissingColumns(doc.table.headers) # {}
      [] doc.kind = "pdf"   -> ~doc.text.hasText \/ PdfRaises(doc.text)
      [] doc.kind = "image" -> OcrFails(doc)
      [] OTHER              -> FALSE

(***************************************************************************)
(* State                                                                   *)
(***************************************************************************)
VARIABLES
    pc,           \* where process_timesheet_extraction is
    mapping,      \* employee_mapping
    employeesDb,  \* the employees table get_employee_info_from_db reads
    emailsLeft,   \* timesheet_emails not yet started
    filesLeft,    \* downloaded_files of the current email not yet processed
    sender,       \* email_info.sender of the current email
    extracted,    \* all_extracted_data
    results,      \* the dictionary the function returns
    imapOpen,     \* the detector's IMAP connection is open
    sinkCalls,    \* the lists handed to save_timesheet_entries_to_supabase
    visited,      \* the attachments the file loop has gone through
    planned,      \* the number of attachments downloaded so far
    origin,       \* for each entry of extracted, its attachment's index
    escaped,      \* an exception reached the outer handler
    ident,        \* the identity lookups on their own
    xl,           \* extract_timesheet_data_from_excel on its own
    pdf,          \* extract_timesheet_entries and the PTO hours on their own
    ocrCall,      \* extract_text_with_ocrspace on its own
    grid,         \* extract_timesheet_from_ocr_text on its own
    dateCall      \* _parse_date_input on its own

orchVars == <<pc, mapping, employeesDb, emailsLeft, filesLeft, sender,
              extracted, results, imapOpen, sinkCalls, visited, planned,
              origin, escaped>>
vars == <<orchVars, ident, xl, pdf, ocrCall, grid, dateCall>>

Idle == [pc |-> "idle"]

(***************************************************************************)
(* process_timesheet_extraction                                            *)
(***************************************************************************)
Results0 == [success |-> FALSE, message |-> "", extracted_data |-> <<>>,
             total_entries |-> 0, errors |-> <<>>]

OrchInit ==
    /\ pc = "start"
    /\ mapping \in Mappings
    /\ employeesDb \in Databases
    /\ emailsLeft = 0
    /\ filesLeft = 0
    /\ sender = <<>>
    /\ extracted = <<>>
    /\ results = Results0
    /\ imapOpen = FALSE
    /\ sinkCalls = <<>>
    /\ visited = <<>>
    /\ planned = 0
    /\ origin = <<>>
    /\ escaped = FALSE

Init ==
    /\ OrchInit
    /\ ident = Idle /\ xl = Idle /\ pdf = Idle /\ ocrCall = Idle /\ grid = Idle
    /\ dateCall = Idle

\* detector.connect(): on failure the function returns at once
Connect ==
    /\ pc = "start"
    /\ \E ok \in BOOLEAN :
          IF ok
          THEN /\ pc' = "connected"
               /\ imapOpen' = TRUE
               /\ UNCHANGED results
          ELSE /\ pc' = "done"
               /\ results' = [results EXCEPT !.message = "Failed to connect to Gmail"]
               /\ UNCHANGED imapOpen
    /\ UNCHANGED <<mapping, employeesDb, emailsLeft, filesLeft, sender, extracted,
                   sinkCalls, visited, planned, origin, escaped, ident, xl, pdf,
                   ocrCall, grid, dateCall>>

\* find_timesheet_emails: without emails the detector is disconnected and
\* the function returns
FindEmails ==
    /\ pc = "connected"
    /\ \E n \in 0..MaxEmails :
          IF n = 0
          THEN /\ pc' = "done"
               /\ imapOpen' = FALSE
               /\ results' =
                     [results EXCEPT !.message =
                         "No timesheet emails found in the specified time range"]
               /\ UNCHANGED emailsLeft
          ELSE /\ pc' = "emails"
               /\ emailsLeft' = n
               /\ UNCHANGED <<imapOpen, results>>
    /\ UNCHANGED <<mapping, employeesDb, filesLeft, sender, extracted, sinkCalls,
                   visited, planned, origin, escaped, ident, xl, pdf,
                   ocrCall, grid, dateCall>>

\* the outer handler (lines 273-279): message and traceback are recorded
OuterHandler(res) ==
    [res EXCEPT !.message = "Extraction failed",
                !.errors = Append(@, [doc |-> 0, what |-> "traceback"])]

\* the head of the email loop: download_attachments gives k files (none:
\* continue), or raises outside its own try (os.makedirs), which ends the
\* loop in the outer handler
StartEmail ==
    /\ pc = "emails"
    /\ emailsLeft > 0
    /\ \E s \in Senders, k \in 0..(MaxDocs - planned), raises \in BOOLEAN :
          IF raises
          THEN /\ pc' = "done"
               /\ escaped' = TRUE
               /\ results' = OuterHandler(results)
               /\ UNCHANGED <<emailsLeft, filesLeft, sender, planned>>
          ELSE /\ emailsLeft' = emailsLeft - 1
               /\ sender' = s
               /\ filesLeft' = k
               /\ planned' = planned + k
               /\ pc' = IF k = 0 THEN "emails" ELSE "files"
               /\ UNCHANGED <<escaped, results>>
    /\ UNCHANGED <<mapping, employeesDb, extracted, imapOpen, sinkCalls, visited,
                   origin, ident, xl, pdf,
                   ocrCall, grid, dateCall>>

\* where the file loop goes after an attachment, failed or not: to the next
\* attachment, or back to the email loop
AfterFileAborting(unwinds, left) ==
    IF unwinds THEN "done" ELSE IF left = 0 THEN "emails" ELSE "files"

AfterFile(unwinds, left) == IF left = 0 THEN "emails" ELSE "files"

\* the inner handler (lines 258-261)
InnerHandler(res, n) ==
    [res EXCEPT !.errors = Append(@, [doc |-> n, what |-> "Error processing"])]

\* one iteration of the file loop (lines 236-261).  unwinds: an exception
\* leaves the per-document function (its own handler catches Exception, so
\* only one raised while that handler runs).  sink: what the sink meets
\* when the function calls it.
ProcessFile ==
    /\ pc = "files"
    /\ filesLeft > 0
    /\ \E doc \in Docs, unwinds \in BOOLEAN :
        \E returned \in {IF unwinds THEN NoData
                         ELSE ProcessDocument(doc, sender, mapping, employeesDb)} :
          \E sink \in IF returned.saved = <<>> THEN {"saved"} ELSE SinkOutcomes :
            \E out \in {AfterSink(returned, sink)} :
              /\ extracted' = extracted \o out.data
              /\ origin' = origin \o [i \in 1..Len(out.data) |-> Len(visited) + 1]
              /\ sinkCalls' = sinkCalls
                                 \o SinkCallsOf(out.saved, sink, Len(visited) + 1)
              /\ results' = IF unwinds
                            THEN InnerHandler(results, Len(visited) + 1)
                            ELSE results
              /\ visited' = Append(visited,
                     [sender   |-> sender,
                      read     |-> IF unwinds \/ DocumentError(doc)
                                   THEN "none" ELSE doc.kind,
                      unwound  |-> unwinds,
                      error    |-> ~unwinds /\ DocumentError(doc),
                      ptoDates |-> {out.pto[i].date : i \in 1..Len(out.pto)}])
              /\ filesLeft' = filesLeft - 1
              /\ pc' = AfterFile(unwinds, filesLeft - 1)
    /\ UNCHANGED <<mapping, employeesDb, emailsLeft, sender, imapOpen, planned,
                   escaped, ident, xl, pdf,
                   ocrCall, grid, dateCall>>

\* after the loops (lines 263-271)
Finish ==
    /\ pc = "emails"
    /\ emailsLeft = 0
    /\ imapOpen' = FALSE
    /\ results' = [results EXCEPT !.success = TRUE,
                                  !.extracted_data = extracted,
                                  !.total_entries = Len(extracted),
                                  !.message = "Successfully extracted"]
    /\ pc' = "done"
    /\ UNCHANGED <<mapping, employeesDb, emailsLeft, filesLeft, sender, extracted,
                   sinkCalls, visited, planned, origin, escaped, ident, xl, pdf,
                   ocrCall, grid, dateCall>>

Next == Connect \/ FindEmails \/ StartEmail \/ ProcessFile \/ Finish

Spec == Init /\ [][Next]_vars

(***************************************************************************)
(* Statements about the batch, under Spec                                  *)
(***************************************************************************)
Done == pc = "done"

\* the batch went through its loops: it connected and found emails
Looped ==
    results.message \notin
        {"Failed to connect to Gmail",
         "No timesheet emails found in the specified time range"}

\* the attachments an exception unwound from
Unwound == {n \in 1..Len(visited) : visited[n].unwound}

\* the attachments recorded in results["errors"] by the inner handler
Recorded == {results.errors[i].doc : i \in 1..Len(results.errors)} \ {0}

\* C1: process_timesheet_extraction never lets a failure unwind past it.
\* Before the function has returned some step of it can be taken, whatever
\* the outcomes of the documents so far; when it has returned, the result
\* carries total_entries = the length of the entry list, and each document
\* that raised is in errors; and when no exception came from outside the
\* per-document calls, every downloaded attachment of every email was
\* processed, the ones after a failed one included, and success is set.
C1_BatchCompletes ==
    /\ ~Done => ENABLED Next
    /\ Recorded = Unwound
    /\ Done => /\ results.total_entries = Len(results.extracted_data)
               /\ results.success => results.extracted_data = extracted
    /\ (Done /\ Looped /\ ~escaped) =>
           /\ results.success
           /\ emailsLeft = 0 /\ filesLeft = 0
           /\ Len(visited) = planned

\* a finished batch in which a document raised and a later document gave
\* entries that are in the result
C1_Witness ==
    /\ Done /\ results.success
    /\ \E n \in Unwound :
          \E i \in 1..Len(results.extracted_data) : origin[i] > n

\* C2: for every document with a document-level error, an error string for
\* that document is in the errors list of the batch result (and the document
\* contributes no entries).
C2_ErrorRecorded ==
    \A n \in 1..Len(visited) :
        visited[n].error =>
            /\ n \in Recorded
            /\ \A i \in 1..Len(extracted) : origin[i] # n

\* C3: when two different documents of a finished batch each yield a PTO
\* entry for the same date, the entry list of the result holds a PTO entry
\* for that date from each of them.
C3_BothPtoEmitted ==
    (Done /\ results.success) =>
        \A m, n \in 1..Len(visited) :
            \A d \in visited[m].ptoDates \cap visited[n].ptoDates :
                m # n =>
                    \E i, j \in 1..Len(results.extracted_data) :
                        /\ origin[i] = m /\ origin[j] = n
                        /\ results.extracted_data[i].activity = "PTO"
                        /\ results.extracted_data[j].activity = "PTO"
                        /\ results.extracted_data[i].date = d
                        /\ results.extracted_data[j].date = d

\* C4: employee_name and employee_id of every entry are the identity
\* resolved for the sender of the email the entry's document came from.
C4_IdentityOfSender ==
    \A i \in 1..Len(extracted) :
        /\ extracted[i].employee_name =
               get_employee_name(visited[origin[i]].sender, mapping)
        /\ extracted[i].employee_id =
               get_employee_id(visited[origin[i]].sender, mapping)

(***************************************************************************)
(* The identity lookups on their own: SpecIdent                            *)
(***************************************************************************)
\* the orchestrator is not running
OrchIdle ==
    /\ pc = "idle"
    /\ mapping = <<>>
    /\ employeesDb = <<>>
    /\ emailsLeft = 0
    /\ filesLeft = 0
    /\ sender = <<>>
    /\ extracted = <<>>
    /\ results = Results0
    /\ imapOpen = FALSE
    /\ sinkCalls = <<>>
    /\ visited = <<>>
    /\ planned = 0
    /\ origin = <<>>
    /\ escaped = FALSE

AmyAddr == <<"a", "m", "y", "@", "c", "o">>

\* an entry of the CSV kind: no name, the identifier under 'emp id'
AmyEntry == [email |-> AmyAddr, name |-> NoneVal, employee_id |-> NoneVal,
             emp_id |-> Str(<<"A", "7">>), projects |-> <<>>]

\* the addresses From headers carry, and the three shapes of a header
IdentAddrs == {JdAddr, <<"J", "d", "@", "c", "o">>, BobAddr, AmyAddr,
               <<"z", "o", "e", "@", "c", "o">>}
Bracketed(a) == <<"<">> \o a \o <<">">>
Named(a) == <<"Z", "o", "e", " ", "<">> \o a \o <<">">>
IdentSenders ==
    IdentAddrs \cup {Bracketed(a) : a \in IdentAddrs}
        \cup {Named(a) : a \in IdentAddrs}

IdentMappings == {<<>>, <<BobEntry>>, <<JdEntry, BobEntry>>, <<AmyEntry>>}

IdentInit ==
    /\ OrchIdle /\ xl = Idle /\ pdf = Idle /\ ocrCall = Idle /\ grid = Idle
    /\ dateCall = Idle
    /\ ident \in {[pc |-> "ready", sender_email |-> s, employee_mapping |-> m,
                    name |-> NoneVal, id |-> NoneVal] :
                      s \in IdentSenders, m \in IdentMappings}

\* a call of get_employee_name
ResolveName ==
    /\ ident.pc = "ready"
    /\ ident.name = NoneVal
    /\ ident' = [ident EXCEPT !.name =
                     Str(get_employee_name(ident.sender_email,
                                           ident.employee_mapping))]
    /\ UNCHANGED <<orchVars, xl, pdf, ocrCall, grid, dateCall>>

\* a call of get_employee_id
ResolveId ==
    /\ ident.pc = "ready"
    /\ ident.id = NoneVal
    /\ ident' = [ident EXCEPT !.id =
                     Str(get_employee_id(ident.sender_email,
                                         ident.employee_mapping))]
    /\ UNCHANGED <<orchVars, xl, pdf, ocrCall, grid, dateCall>>

IdentNext == ResolveName \/ ResolveId

SpecIdent == IdentInit /\ [][IdentNext]_vars

\* the sender's normalized address is no key of the mapping
Absent(sender_email, employee_mapping) ==
    \A i \in 1..Len(employee_mapping) :
        employee_mapping[i].email # clean_email(sender_email)

\* the address the header carries: what stands between < and >, or the
\* whole header
Address(sender_email) ==
    IF HasChar(sender_email, "<") /\ HasChar(sender_email, ">")
    THEN StrStrip(SubSeq(sender_email, Find(sender_email, "<") + 1,
                                       Find(sender_email, ">") - 1))
    ELSE StrStrip(sender_email)

\* the local part of the address, what stands before the @, as written
\* and in lower case
LocalParts(sender_email) ==
    {SplitFirst(Address(sender_email), "@"),
     StrLower(SplitFirst(Address(sender_email), "@"))}

\* C5: for a sender absent from the mapping, get_employee_name and
\* get_employee_id both return the local part of the address.
C5_LocalPartFallback ==
    (ident.pc = "ready" /\ Absent(ident.sender_email, ident.employee_mapping)) =>
        /\ ident.name # NoneVal => ident.name.s \in LocalParts(ident.sender_email)
        /\ ident.id # NoneVal => ident.id.s \in LocalParts(ident.sender_email)

(***************************************************************************)
(* extract_timesheet_data_from_excel on its own: SpecExcel                 *)
(*                                                                         *)
(* xl holds the position in the function, the sheet read (nrows rows, n of *)
(* them gone through), cols (the standard names of actual_columns), the    *)
(* three accumulators, row (the row gone through last), and for each entry *)
(* of work_entries and pto_entries the sheet row it was made from          *)
(* (work_src, pto_src).  The headers are df.columns after line 44.         *)
(***************************************************************************)
XlHeaderSets ==
    {FullHeaders,
     {"work_date", "hours_worked", "client"},
     {"date", "day", "client"},
     {"day", "time", "client"}}

\* the cells a sheet can hold in its date, hours and activity columns
XlDates ==
    {NoneVal, Text(<<"T", "o", "t", "a", "l">>), Mdy(1, 15, 2024),
     Iso(2024, 1, 16), Mdy(2, 30, 2024), Text(<<"t", "b", "d">>)}
XlHours ==
    {NoneVal, Num(0), Num(0 - 400), Str(H800), Str(BadHours), Str(<<"0">>)}
XlActivities ==
    {Str(<<"p", "t", "o">>), Str(<<"P", "T", "O">>), Str(<<" ", "P", "t", "o", " ", "d">>),
     Str(<<"w", "o", "r", "k">>), Str(<<"o", "p", "t">>)}

\* the rows of the model: the base row with one cell exchanged
XlRows ==
    {BaseRow}
        \cup {[BaseRow EXCEPT !.date = c] : c \in XlDates}
        \cup {[BaseRow EXCEPT !.hours = c] : c \in XlHours}
        \cup {[BaseRow EXCEPT !.activity = c] : c \in XlActivities}

ExcelInit ==
    /\ OrchIdle /\ ident = Idle /\ pdf = Idle /\ ocrCall = Idle /\ grid = Idle
    /\ dateCall = Idle
    /\ xl = [pc |-> "open"]

\* lines 28-73: the sheet is read and its columns are mapped; None when the
\* file cannot be read, the sheet is empty or a required column is missing
ExcelOpen ==
    /\ xl.pc = "open"
    /\ \E readable \in BOOLEAN, headers \in XlHeaderSets, nrows \in 0..MaxRows :
          xl' = IF ~readable \/ nrows = 0 \/ MissingColumns(headers) # {}
                THEN [pc |-> "none", readable |-> readable,
                      headers |-> headers, nrows |-> nrows]
                ELSE [pc |-> "rows", readable |-> readable,
                      headers |-> headers,
                      cols |-> DOMAIN ActualColumns(headers),
                      nrows |-> nrows, n |-> 0, acc |-> ExcelAcc0,
                      row |-> NoneVal, work_src |-> <<>>, pto_src |-> <<>>]
    /\ UNCHANGED <<orchVars, ident, pdf, ocrCall, grid, dateCall>>

\* the rows an accumulator list gained in a step are made from row
Grown(src, before, after, row) ==
    IF Len(after) > Len(before) THEN Append(src, row) ELSE src

\* one iteration of the row loop (lines 89-139)
ExcelRowStep ==
    /\ xl.pc = "rows"
    /\ xl.n < xl.nrows
    /\ \E row \in XlRows :
          \E acc \in {ExcelRow(xl.acc, row, xl.cols)} :
              xl' = [xl EXCEPT
                        !.n = @ + 1,
                        !.acc = acc,
                        !.row = row,
                        !.work_src = Grown(@, xl.acc.work_entries,
                                           acc.work_entries, row),
                        !.pto_src = Grown(@, xl.acc.pto_entries,
                                          acc.pto_entries, row)]
    /\ UNCHANGED <<orchVars, ident, pdf, ocrCall, grid, dateCall>>

\* lines 141-157: the dictionary is returned
ExcelReturn ==
    /\ xl.pc = "rows"
    /\ xl.n = xl.nrows
    /\ xl' = [pc |-> "done", readable |-> xl.readable,
              headers |-> xl.headers, nrows |-> xl.nrows,
              cols |-> xl.cols, n |-> xl.n,
              result |-> ExcelDict(xl.acc),
              work_src |-> xl.work_src, pto_src |-> xl.pto_src]
    /\ UNCHANGED <<orchVars, ident, pdf, ocrCall, grid, dateCall>>

ExcelNext == ExcelOpen \/ ExcelRowStep \/ ExcelReturn

SpecExcel == ExcelInit /\ [][ExcelNext]_vars

\* the two lists of entries the function holds or has returned
XlWork ==
    CASE xl.pc = "rows" -> xl.acc.work_entries
      [] xl.pc = "done" -> xl.result.work_entries
      [] OTHER          -> <<>>
XlPto ==
    CASE xl.pc = "rows" -> xl.acc.pto_entries
      [] xl.pc = "done" -> xl.result.pto_entries
      [] OTHER          -> <<>>
XlEntries == XlWork \o XlPto

\* C6: every entry the tabular extractor emits has hours above zero.
C6_HoursPositive ==
    \A i \in 1..Len(XlEntries) : XlEntries[i].hours > 0

\* C7: the PTO entries the tabular extractor returns for a document have
\* pairwise distinct dates.
C7_PtoDatesDistinct ==
    \A i, j \in 1..Len(XlPto) : i # j => XlPto[i].date # XlPto[j].date

\* C8: every entry that leaves the tabular extractor has a date of the form
\* MM/DD/YYYY that names a real day.
C8_DatesCanonical ==
    \A i \in 1..Len(XlEntries) : IsCanonicalDate(XlEntries[i].date)

\* the raw activity label of the row contains "pto", in any case
RawHasPto(row, cols) ==
    /\ "activity" \in cols
    /\ row.activity.k = "str"
    /\ Contains(StrLower(row.activity.s), <<"p", "t", "o">>)

\* C10: every entry of the tabular extractor has activity WORK or PTO; an
\* entry of pto_entries has activity PTO and comes from a row whose label
\* contains "pto" in any case, an entry of work_entries has activity WORK
\* and comes from a row without such a label (or without a label or an
\* activity column); a row gives at most one entry, in one of the lists.
C10_ActivityClassified ==
    xl.pc \in {"rows", "done"} =>
        /\ Len(xl.work_src) = Len(XlWork)
        /\ Len(xl.pto_src) = Len(XlPto)
        /\ \A i \in 1..Len(XlWork) :
              /\ XlWork[i].activity = "WORK"
              /\ ~RawHasPto(xl.work_src[i], xl.cols)
        /\ \A i \in 1..Len(XlPto) :
              /\ XlPto[i].activity = "PTO"
              /\ RawHasPto(xl.pto_src[i], xl.cols)
        /\ Len(XlWork) + Len(XlPto) <= xl.n

\* the function has returned a PTO entry made from a label that only
\* contains "pto", in mixed case, and a WORK entry made from a row without
\* a label
C10_Witness ==
    /\ xl.pc = "done"
    /\ \E i \in 1..Len(XlPto) :
          xl.pto_src[i].activity = Str(<<" ", "P", "t", "o", " ", "d">>)
    /\ \E i \in 1..Len(XlWork) : xl.work_src[i].activity = NoneVal

(***************************************************************************)
(* extract_timesheet_entries, then the PTO hours of                        *)
(* process_timesheet_pdf: SpecPdf                                          *)
(***************************************************************************)
\* the matches of the model: the base match with one part exchanged
PdfItems ==
    {BasePdfItem,
     [BasePdfItem EXCEPT !.shape = "alt"],
     [BasePdfItem EXCEPT !.shape = "pto", !.hours = <<>>],
     [BasePdfItem EXCEPT !.shape = "pto", !.hours = <<>>,
                         !.day = <<"M", "o", "n">>],
     [BasePdfItem EXCEPT !.date = Mdy(13, 45, 2024)],
     [BasePdfItem EXCEPT !.day = <<"M", "o", "n">>],
     [BasePdfItem EXCEPT !.hours = <<"0", ".", "0", "0">>],
     [BasePdfItem EXCEPT !.hours = BadHours]}

\* the texts of the model: up to MaxItems matches, with or without the
\* client's name
PdfTexts ==
    {[hasText |-> TRUE, paradigm |-> p, items |-> items] :
        p \in BOOLEAN,
        items \in UNION {[1..n -> PdfItems] : n \in 0..MaxItems}}

PdfInit ==
    /\ OrchIdle /\ ident = Idle /\ xl = Idle /\ ocrCall = Idle /\ grid = Idle
    /\ dateCall = Idle
    /\ pdf \in {[pc |-> "ready", text |-> t] : t \in PdfTexts}

\* a call of extract_timesheet_entries with the client name found in the
\* text: it raises (float), or returns the two lists
ExtractEntries ==
    /\ pdf.pc = "ready"
    /\ pdf' = IF PdfRaises(pdf.text)
              THEN [pc |-> "raised", text |-> pdf.text]
              ELSE [pc |-> "done", text |-> pdf.text,
                    entries |-> extract_timesheet_entries(
                                    pdf.text, extract_client_name(pdf.text))]
    /\ UNCHANGED <<orchVars, ident, xl, ocrCall, grid, dateCall>>

\* what the employees table gives for the sender: no row, a row with a
\* number, a row without one
PdfEmployeeInfos ==
    {NoEmployeeInfo,
     [employee_name |-> Str(<<"F", "a", "r", "a", "h">>),
      employee_number |-> Str(<<"E", "9">>)],
     [employee_name |-> Str(<<"F", "a", "r", "a", "h">>),
      employee_number |-> NoneVal]}

\* what the query of get_pto_hours_from_db gives: it raises, finds no row,
\* finds a row without hours or with a null, with a number, with a text
PtoAnswers ==
    {[k |-> "raised"], [k |-> "norow"], [k |-> "nokey"], NoneVal,
     Num(400), Num(0), Str(<<"4", ".", "5">>), Str(<<"n", "/", "a">>)}

\* the rest of process_timesheet_pdf (lines 295-313): every PTO entry gets
\* its hours, from one call of get_pto_hours_from_db each when the employee
\* has a number, else 8.0
SetPtoHours ==
    /\ pdf.pc = "done"
    /\ \E info \in PdfEmployeeInfos :
       \E answers \in [1..Len(pdf.entries.pto_entries) -> PtoAnswers] :
          pdf' = [pc |-> "processed", text |-> pdf.text,
                  employee_info |-> info, answers |-> answers,
                  entries |->
                     [pdf.entries EXCEPT !.pto_entries =
                         [i \in 1..Len(@) |->
                             [@[i] EXCEPT
                                 !.hours = PtoHoursFor(info, answers[i])]]]]
    /\ UNCHANGED <<orchVars, ident, xl, ocrCall, grid, dateCall>>

PdfNext == ExtractEntries \/ SetPtoHours

SpecPdf == PdfInit /\ [][PdfNext]_vars

PdfEntriesOut ==
    IF pdf.pc = "done"
    THEN pdf.entries.work_entries \o pdf.entries.pto_entries
    ELSE <<>>

\* C9: in every entry of the document-text extractor whose date names a
\* real day, day is the weekday code computed from that date.
C9_DayFromDate ==
    \A i \in 1..Len(PdfEntriesOut) :
        IsCanonicalDate(PdfEntriesOut[i].date) =>
            PdfEntriesOut[i].day =
                DayCode(PdfEntriesOut[i].date.m, PdfEntriesOut[i].date.d,
                        PdfEntriesOut[i].date.y)

(***************************************************************************)
(* extract_text_with_ocrspace on its own: SpecOcr                          *)
(*                                                                         *)
(* ocrCall is [pc, max_attempts, use_local_fallback, attempt, posts,       *)
(* sleeps, last_error, fallback, text]: attempt is the loop variable,      *)
(* posts counts the calls of session.post, sleeps those of time.sleep,     *)
(* last_error is the outcome kept in last_error, fallback tells what the   *)
(* local extraction did ("none" when it was not run) and text where the    *)
(* returned text comes from.                                               *)
(***************************************************************************)
\* the default of the max_attempts parameter, the one every caller uses
DefaultMaxAttempts == 4

\* what one pass of the attempt loop can meet (lines 77-128): ReadTimeout,
\* ConnectionError, a status other than 200, a body that is not JSON, an
\* OCRExitCode other than 1 with or without a transient marker, no
\* ParsedResults, a blank ParsedText, or a text
OcrOutcomes ==
    {"timeout", "connection", "status", "badjson", "transient",
     "nontransient", "noparsed", "empty", "success"}

\* the outcomes whose branch sleeps and continues whatever the attempt
\* number: the two handlers of lines 130-141 and the branch of lines 106-112
SleepsAlways(outcome) == outcome \in {"timeout", "connection", "transient"}

\* an alternative of OcrAfterFailure that never leaves the loop
OcrAfterFailureForever(attempt, max_attempts) == "loop"

\* where the loop is after a failed pass: range(1, max_attempts + 1) ends
\* after pass max_attempts, by exhaustion (continue) or by the break of
\* line 154
OcrAfterFailure(attempt, max_attempts) ==
    IF attempt < max_attempts THEN "loop" ELSE "after"

\* time.sleep is called in the pass: always in the three transient
\* branches, only before a further pass in the handler of lines 142-154
OcrSleeps(outcome, attempt, max_attempts) ==
    SleepsAlways(outcome) \/ attempt < max_attempts

OcrInit ==
    /\ OrchIdle /\ ident = Idle /\ xl = Idle /\ pdf = Idle /\ grid = Idle
    /\ dateCall = Idle
    /\ ocrCall \in {[pc |-> "start", max_attempts |-> m,
                     use_local_fallback |-> f, attempt |-> 0, posts |-> 0,
                     sleeps |-> 0, last_error |-> "none",
                     fallback |-> "none", text |-> "none"] :
                        m \in 1..DefaultMaxAttempts, f \in BOOLEAN}

\* an alternative of OcrPrepared that goes on after the loop when the key
\* or the file is missing
OcrPreparedFallsBack(call, keySet, fileOpens) ==
    IF keySet /\ fileOpens
    THEN [call EXCEPT !.pc = "loop", !.attempt = 1]
    ELSE [call EXCEPT !.pc = "after",
                      !.last_error = IF keySet THEN "file" ELSE "key"]

\* lines 30-65: without OCR_KEY a ValueError is raised, and the opening of
\* the image can raise; both leave through the handler of lines 182-184
OcrPrepared(call, keySet, fileOpens) ==
    IF keySet /\ fileOpens
    THEN [call EXCEPT !.pc = "loop", !.attempt = 1]
    ELSE [call EXCEPT !.pc = "raised",
                      !.last_error = IF keySet THEN "file" ELSE "key"]

OcrPrepare ==
    /\ ocrCall.pc = "start"
    /\ \E keySet \in BOOLEAN, fileOpens \in BOOLEAN :
          ocrCall' = OcrPrepared(ocrCall, keySet, fileOpens)
    /\ UNCHANGED <<orchVars, ident, xl, pdf, grid, dateCall>>

\* one pass of the attempt loop (lines 68-154): the POST is sent, a text is
\* returned, any failure is kept in last_error and the loop goes on or ends
OcrAttempt ==
    /\ ocrCall.pc = "loop"
    /\ \E outcome \in OcrOutcomes :
          ocrCall' =
              IF outcome = "success"
              THEN [ocrCall EXCEPT !.pc = "returned", !.text = "remote",
                                   !.posts = @ + 1]
              ELSE [ocrCall EXCEPT
                      !.pc = OcrAfterFailure(ocrCall.attempt,
                                             ocrCall.max_attempts),
                      !.attempt = @ + 1,
                      !.posts = @ + 1,
                      !.sleeps = IF OcrSleeps(outcome, ocrCall.attempt,
                                              ocrCall.max_attempts)
                                 THEN @ + 1 ELSE @,
                      !.last_error = outcome]
    /\ UNCHANGED <<orchVars, ident, xl, pdf, grid, dateCall>>

\* an alternative of OcrAfterLoop that returns whatever pytesseract gave
OcrAfterLoopAnyText(call, local) ==
    IF ~call.use_local_fallback THEN [call EXCEPT !.pc = "raised"]
    ELSE IF local # "raised"
    THEN [call EXCEPT !.pc = "returned", !.text = "local", !.fallback = local]
    ELSE [call EXCEPT !.pc = "raised", !.fallback = local]

\* after the loop (lines 156-180): with use_local_fallback pytesseract is
\* run and a text that is not blank is returned; in every other case the
\* final exception is raised
OcrAfterLoop(call, local) ==
    IF ~call.use_local_fallback THEN [call EXCEPT !.pc = "raised"]
    ELSE IF local = "text"
    THEN [call EXCEPT !.pc = "returned", !.text = "local", !.fallback = local]
    ELSE [call EXCEPT !.pc = "raised", !.fallback = local]

OcrFallback ==
    /\ ocrCall.pc = "after"
    /\ \E local \in {"text", "blank", "raised"} :
          ocrCall' = OcrAfterLoop(ocrCall, local)
    /\ UNCHANGED <<orchVars, ident, xl, pdf, grid, dateCall>>

OcrNext == OcrPrepare \/ OcrAttempt \/ OcrFallback

SpecOcr == OcrInit /\ [][OcrNext]_vars

\* the call is synchronous and every request is bounded by its timeout, so
\* a step that can be taken is taken
SpecOcrLive == SpecOcr /\ WF_vars(OcrNext)

\* the call is over
OcrOver == ocrCall.pc \in {"returned", "raised"}

\* C11: whatever the remote outcomes are, at most max_attempts POSTs are
\* sent, none is sent once a pass has succeeded, and the call ends by
\* returning a text or by raising.
C11_BoundedAttempts ==
    /\ [](ocrCall.posts <= ocrCall.max_attempts)
    /\ [][ocrCall.text = "remote" => ocrCall'.posts = ocrCall.posts]_vars
    /\ <>OcrOver

\* the ceiling is reached: four failed POSTs, then the call raises
C11_Witness ==
    /\ ocrCall.pc = "raised"
    /\ ocrCall.max_attempts = DefaultMaxAttempts
    /\ ocrCall.posts = DefaultMaxAttempts

GridTexts ==
    {[ranges |-> r, leave |-> l, dayTotalHrs |-> h, dayTotal |-> t,
      fallback |-> f] :
        r \in {<<NoneVal, NoneVal, NoneVal>>,
               <<Dmy(1, 1, 2024), NoneVal, NoneVal>>,
               <<Dmy(31, 2, 2024), NoneVal, NoneVal>>,
               <<Dmy(31, 2, 2024), Dmy(29, 1, 2024), NoneVal>>},
        l \in {NoneVal, Row(<<0, 0, 800, 0, 0, 0, 0>>),
               Row(<<400, 400, 400, 400, 400, 400, 400>>)},
        h \in {NoneVal, Row(<<0, 800, 800, 800, 800, 0, 0>>),
               Row(<<0, 0, 0, 0, 0, 0, 0>>)},
        t \in {NoneVal, Row(<<700, 0, 700, 0, 0, 0, 0>>)},
        f \in {NoneVal, Row(<<600, 600, 600, 0, 0>>),
               Row(<<0, 650, 650, 650, 650, 650, 650, 650>>)}}

GridInit ==
    /\ OrchIdle /\ ident = Idle /\ xl = Idle /\ pdf = Idle /\ ocrCall = Idle
    /\ dateCall = Idle
    /\ grid \in {[pc |-> "dates", ocr |-> t, start_date |-> NoneVal,
                  pto_entries |-> <<>>, work_entries |-> <<>>,
                  hours_extracted |-> FALSE, pattern |-> 1, tried |-> <<>>,
                  results |-> NoneVal] : t \in GridTexts}

\* lines 208-243: the date range (the project is a constant)
GridDates ==
    /\ grid.pc = "dates"
    /\ grid' = [grid EXCEPT !.pc = "leave",
                            !.start_date = GridStartDate(grid.ocr)]
    /\ UNCHANGED <<orchVars, ident, xl, pdf, ocrCall, dateCall>>

\* lines 247-280: the Leave/PTO row
GridLeave ==
    /\ grid.pc = "leave"
    /\ grid' = [grid EXCEPT !.pc = "dayTotal",
                            !.pto_entries = GridPto(grid.ocr)]
    /\ UNCHANGED <<orchVars, ident, xl, pdf, ocrCall, dateCall>>

\* the dates the Leave step has put in pto_dates
GridPtoDates(pto_entries) ==
    {pto_entries[n].date : n \in 1..Len(pto_entries)}

\* an alternative of HoursExtracted that never sets the flag
HoursExtractedNever(row, start_date) == FALSE

\* hours_extracted = True (lines 316 and 358): set, after the columns of a
\* matched row have been gone through, inside "if start_date"
HoursExtracted(row, start_date) == Matched(row) /\ Matched(start_date)

\* the entries a matched row adds, none without a start date
GridRowEntries(row, start_date, pto_entries) ==
    IF Matched(row) /\ Matched(start_date)
    THEN GridWorkFrom(row.v, start_date, GridPtoDates(pto_entries), 1)
    ELSE <<>>

\* one pass of the loop over day_total_patterns (lines 291-317): the loop
\* is left by the break after the pass that set hours_extracted, or after
\* the second pattern
GridDayTotal ==
    /\ grid.pc = "dayTotal"
    /\ \E row \in {IF grid.pattern = 1 THEN grid.ocr.dayTotalHrs
                   ELSE grid.ocr.dayTotal} :
          grid' = [grid EXCEPT
              !.tried = Append(@, IF grid.pattern = 1 THEN "hrs" ELSE "total"),
              !.work_entries =
                  @ \o GridRowEntries(row, grid.start_date, grid.pto_entries),
              !.hours_extracted = HoursExtracted(row, grid.start_date),
              !.pattern = @ + 1,
              !.pc = IF HoursExtracted(row, grid.start_date)
                        \/ grid.pattern = 2
                     THEN "fallback" ELSE "dayTotal"]
    /\ UNCHANGED <<orchVars, ident, xl, pdf, ocrCall, dateCall>>

\* lines 320-359: without hours_extracted the lines after the weekday
\* header are scanned for the first one with five decimals or more
GridScan ==
    /\ grid.pc = "fallback"
    /\ grid' = IF grid.hours_extracted THEN [grid EXCEPT !.pc = "totals"]
               ELSE [grid EXCEPT
                       !.pc = "totals",
                       !.tried = Append(@, "scan"),
                       !.work_entries =
                           @ \o GridRowEntries(grid.ocr.fallback,
                                               grid.start_date,
                                               grid.pto_entries),
                       !.hours_extracted = Matched(grid.ocr.fallback)]
    /\ UNCHANGED <<orchVars, ident, xl, pdf, ocrCall, dateCall>>

\* lines 363-374: the totals, and the return
GridTotals ==
    /\ grid.pc = "totals"
    /\ grid' = [grid EXCEPT
                  !.pc = "done",
                  !.results = GridDict(grid.work_entries, grid.pto_entries,
                                       grid.start_date)]
    /\ UNCHANGED <<orchVars, ident, xl, pdf, ocrCall, dateCall>>

GridNext == GridDates \/ GridLeave \/ GridDayTotal \/ GridScan \/ GridTotals

SpecGrid == GridInit /\ [][GridNext]_vars

\* the lists of the returned dictionary, empty before the return
GridOutWork == IF grid.pc = "done" THEN grid.results.work_entries ELSE <<>>
GridOutPto == IF grid.pc = "done" THEN grid.results.pto_data ELSE <<>>

\* C13: in the returned dictionary no date is in the PTO entries and in the
\* WORK entries, and no WORK entry has zero hours, whichever row the WORK
\* entries were read from.
C13_PtoDatesNotWorked ==
    /\ \A i \in 1..Len(GridOutWork) : \A j \in 1..Len(GridOutPto) :
          GridOutWork[i].date # GridOutPto[j].date
    /\ \A i \in 1..Len(GridOutWork) : GridOutWork[i].hours # 0

\* the scanned row has hours in its first three columns and Leave claims
\* the third: two WORK entries and one PTO entry are returned
C13_Witness ==
    /\ grid.pc = "done"
    /\ grid.tried = <<"hrs", "total", "scan">>
    /\ grid.ocr.fallback = Row(<<600, 600, 600, 0, 0>>)
    /\ grid.ocr.leave = Row(<<0, 0, 800, 0, 0, 0, 0>>)
    /\ Len(GridOutPto) = 1
    /\ Len(GridOutWork) = 2

\* C14: when no date pattern matches a date that strptime accepts, the
\* returned dictionary has no WORK entry, no PTO entry and no daily-hours
\* item, and its total hours is 0, whatever rows the text has.
C14_NothingWithoutStartDate ==
    (/\ grid.pc = "done"
     /\ \A j \in 1..Len(grid.ocr.ranges) :
           \/ ~Matched(grid.ocr.ranges[j])
           \/ ~ValidDate(grid.ocr.ranges[j].m, grid.ocr.ranges[j].d,
                         grid.ocr.ranges[j].y))
    => /\ grid.results.work_entries = <<>>
       /\ grid.results.pto_data = <<>>
       /\ grid.results.daily_hours = <<>>
       /\ grid.results.total_hours = 0

\* the text has the range "31-02-2024 To ...", a Leave row, both Day Total
\* rows and a row under the weekday header; the dictionary returned is empty
C14_Witness ==
    /\ grid.pc = "done"
    /\ grid.ocr.ranges = <<Dmy(31, 2, 2024), NoneVal, NoneVal>>
    /\ Matched(grid.ocr.leave) /\ Matched(grid.ocr.dayTotalHrs)
    /\ Matched(grid.ocr.dayTotal) /\ Matched(grid.ocr.fallback)
    /\ grid.results.work_entries = <<>>
    /\ grid.results.total_hours = 0

\* the Day Total row the WORK entries are read from: the "(hrs)" one when
\* it matched, else the plain one
FirstDayTotal(ocr) ==
    IF Matched(ocr.dayTotalHrs) THEN ocr.dayTotalHrs ELSE ocr.dayTotal

\* C15 as stated: the header-relative scan is run only if neither Day Total
\* pattern matched.
C15_ScanOnlyUnmatched ==
    (\E n \in 1..Len(grid.tried) : grid.tried[n] = "scan")
    => ~Matched(FirstDayTotal(grid.ocr))

\* C15: the tiers are gone through in the order "(hrs)" row, plain row,
\* scan; the scan is run only if neither Day Total pattern matched or no
\* start date was resolved; and with a start date and a matched Day Total
\* pattern every WORK entry is read from the first matched row alone, even
\* if that row gives none.
C15_TierOrder ==
    /\ \A n \in 1..Len(grid.tried) :
          grid.tried[n] = <<"hrs", "total", "scan">>[n]
    /\ (\E n \in 1..Len(grid.tried) : grid.tried[n] = "scan")
       => ~Matched(FirstDayTotal(grid.ocr)) \/ ~Matched(grid.start_date)
    /\ (/\ grid.pc = "done"
        /\ Matched(grid.start_date)
        /\ Matched(FirstDayTotal(grid.ocr)))
       => /\ \A i \in 1..Len(GridOutWork) :
                \E c \in 1..7 :
                   /\ GridOutWork[i].hours = FirstDayTotal(grid.ocr).v[c]
                   /\ GridOutWork[i].date = AddDays(grid.start_date, c - 1)
          /\ Len(GridOutWork) <= 7

\* the "(hrs)" row matched with zeros only, the text has a row under the
\* weekday header too: the loop stopped at the first tier, no WORK entry
C15_Witness ==
    /\ grid.pc = "done"
    /\ Matched(grid.start_date)
    /\ grid.ocr.dayTotalHrs = Row(<<0, 0, 0, 0, 0, 0, 0>>)
    /\ Matched(grid.ocr.dayTotal) /\ Matched(grid.ocr.fallback)
    /\ grid.tried = <<"hrs">>
    /\ GridOutWork = <<>>

\* the WORK entries of the row 0 8 8 8 8 0 0 for the dates of its columns
\* 1 to 4
FourDays(dates) ==
    [c \in 1..4 |-> [date |-> dates[c],
                     day |-> <<"TUE", "WED", "THU", "FRI">>[c],
                     hours |-> 800, activity |-> "Work"]]

\* C16: an entry made from column i (0..6) of the Leave row, of a Day Total
\* row or of the scanned row is dated start_date + i days and has day code
\* number i of MON..SUN; for start_date 01/01/2024 and the Day Total row
\* 0 8 8 8 8 0 0 the WORK entries are exactly four, of 8.0 hours, dated
\* 01/02 to 01/05/2024 with days TUE to FRI.
C16_ColumnToDate ==
    grid.pc = "done" =>
       /\ \A n \in 1..Len(GridOutPto) : \E c \in 1..7 :
             /\ GridOutPto[n].hours = grid.ocr.leave.v[c]
             /\ GridOutPto[n].date = AddDays(grid.start_date, c - 1)
             /\ GridOutPto[n].day = days_of_week[c]
       /\ \A n \in 1..Len(GridOutWork) : \E c \in 1..7 :
             /\ GridOutWork[n].date = AddDays(grid.start_date, c - 1)
             /\ GridOutWork[n].day = days_of_week[c]
             /\ \E row \in {grid.ocr.dayTotalHrs, grid.ocr.dayTotal,
                            grid.ocr.fallback} :
                   /\ Matched(row) /\ c <= Len(row.v)
                   /\ GridOutWork[n].hours = row.v[c]
       /\ (/\ grid.ocr.dayTotalHrs = Row(<<0, 800, 800, 800, 800, 0, 0>>)
           /\ ~Matched(grid.ocr.leave))
          => /\ grid.start_date = Mdy(1, 1, 2024)
                => GridOutWork = FourDays(<<Mdy(1, 2, 2024), Mdy(1, 3, 2024),
                                            Mdy(1, 4, 2024), Mdy(1, 5, 2024)>>)
             /\ grid.start_date = Mdy(1, 29, 2024)
                => GridOutWork = FourDays(<<Mdy(1, 30, 2024), Mdy(1, 31, 2024),
                                            Mdy(2, 1, 2024), Mdy(2, 2, 2024)>>)

\* the example: the range starts on 01-01-2024, the Day Total (hrs) row is
\* 0 8 8 8 8 0 0, there is no Leave row, four WORK entries are returned
C16_Witness ==
    /\ grid.pc = "done"
    /\ grid.start_date = Mdy(1, 1, 2024)
    /\ grid.ocr.dayTotalHrs = Row(<<0, 800, 800, 800, 800, 0, 0>>)
    /\ ~Matched(grid.ocr.leave)
    /\ Len(GridOutWork) = 4
    /\ GridOutWork[1].day = "TUE" /\ GridOutWork[4].date = Mdy(1, 5, 2024)

\* C17: in the returned dictionary total hours is the sum of the hours of
\* the WORK entries plus the sum of the hours of the PTO entries, and the
\* daily hours hold one item for each WORK entry, with its day, date and
\* hours.
C17_TotalsAddUp ==
    grid.pc = "done" =>
       /\ grid.results.total_hours =
             SumHours(grid.results.work_entries)
                + SumHours(grid.results.pto_data)
       /\ Len(grid.results.daily_hours) = Len(grid.results.work_entries)
       /\ \A n \in 1..Len(grid.results.work_entries) :
             /\ grid.results.daily_hours[n].hours
                   = grid.results.work_entries[n].hours
             /\ grid.results.daily_hours[n].date
                   = grid.results.work_entries[n].date
             /\ grid.results.daily_hours[n].day
                   = grid.results.work_entries[n].day

\* Leave claims the Wednesday of the row 0 8 8 8 8 0 0: three WORK entries
\* and one PTO entry of 8.0 hours each, total hours 32.0
C17_Witness ==
    /\ grid.pc = "done"
    /\ Matched(grid.start_date)
    /\ grid.ocr.leave = Row(<<0, 0, 800, 0, 0, 0, 0>>)
    /\ grid.ocr.dayTotalHrs = Row(<<0, 800, 800, 800, 800, 0, 0>>)
    /\ Len(grid.results.work_entries) = 3
    /\ Len(grid.results.pto_data) = 1
    /\ grid.results.total_hours = 3200

\* C18: when work_pattern matches at least once the returned work_entries
\* are its matches, one entry each and none of alt_work_pattern; the
\* matches of alt_work_pattern are used when work_pattern has none; the
\* PTO entries are the matches of pto_pattern in both cases.
C18_FallbackPatternLast ==
    pdf.pc = "done" =>
       /\ \E used \in {IF ItemsOf(pdf.text, "work") # <<>> THEN "work"
                       ELSE "alt"} :
             /\ Len(pdf.entries.work_entries) = Len(ItemsOf(pdf.text, used))
             /\ \A i \in 1..Len(pdf.entries.work_entries) :
                   /\ pdf.entries.work_entries[i].date
                         = PdfDate(ItemsOf(pdf.text, used)[i].date)
                   /\ pdf.entries.work_entries[i].hours
                         = FloatVal(ItemsOf(pdf.text, used)[i].hours)
       /\ Len(pdf.entries.pto_entries) = Len(ItemsOf(pdf.text, "pto"))
       /\ \A i \in 1..Len(pdf.entries.pto_entries) :
             pdf.entries.pto_entries[i].date
                = PdfDate(ItemsOf(pdf.text, "pto")[i].date)

\* the text has one match of each work pattern: one entry is returned
C18_Witness ==
    /\ pdf.pc = "done"
    /\ Len(ItemsOf(pdf.text, "work")) = 1
    /\ Len(ItemsOf(pdf.text, "alt")) = 1
    /\ Len(pdf.entries.work_entries) = 1

\* C20: extract_timesheet_entries returns the two lists for every text, it
\* never raises.
C20_NeverRaises == pdf.pc # "raised"

\* C19: after process_timesheet_pdf every PTO entry has hours: the hours
\* of the row the lookup found when the employee has a number, and 8.0
\* when the employee is not resolved, the lookup raised, found no row or
\* found a null.
C19_PtoHoursDefault ==
    pdf.pc = "processed" =>
       \A i \in 1..Len(pdf.entries.pto_entries) :
          /\ pdf.entries.pto_entries[i].hours \in Int
          /\ (/\ pdf.employee_info.employee_number # NoneVal
              /\ pdf.answers[i].k = "num")
             => pdf.entries.pto_entries[i].hours = pdf.answers[i].n
          /\ (\/ pdf.employee_info.employee_number = NoneVal
              \/ pdf.answers[i] \in {[k |-> "raised"], [k |-> "norow"],
                                     NoneVal})
             => pdf.entries.pto_entries[i].hours = 800

\* two PTO entries of a resolved employee: the lookup finds 4.0 hours for
\* the first and raises for the second, which gets 8.0
C19_Witness ==
    /\ pdf.pc = "processed"
    /\ pdf.employee_info.employee_number # NoneVal
    /\ Len(pdf.entries.pto_entries) = 2
    /\ pdf.answers = <<Num(400), [k |-> "raised"]>>
    /\ pdf.entries.pto_entries[1].hours = 400
    /\ pdf.entries.pto_entries[2].hours = 800

\* C21: a row whose float(hours_value) raises leaves work_entries,
\* pto_entries and total_hours as they were, so the rows after it are
\* processed as without it; total_hours is at every point the sum of the
\* hours of the entries emitted so far, and so in the returned dictionary.
C21_FailingRowSkipped ==
    /\ [](xl.pc = "rows" =>
             xl.acc.total_hours = SumHours(xl.acc.work_entries)
                                     + SumHours(xl.acc.pto_entries))
    /\ [](xl.pc = "done" =>
             xl.result.total_hours = SumHours(xl.result.work_entries)
                                        + SumHours(xl.result.pto_entries))
    /\ [][(/\ xl.pc = "rows" /\ xl'.pc = "rows" /\ xl'.n = xl.n + 1
           /\ ~IsNa(xl'.row.date)
           /\ xl'.row.hours.k = "str" /\ ~FloatOk(xl'.row.hours.s))
          => xl'.acc = xl.acc]_vars

\* the first row gave an entry, the second has the hours '8..0': the
\* accumulators still hold the one entry and its hours
C21_Witness ==
    /\ xl.pc = "rows"
    /\ xl.n = 2
    /\ xl.row.hours = Str(BadHours)
    /\ Len(xl.acc.work_entries) = 1
    /\ xl.acc.total_hours = 800

\* C22: None is returned whenever the sheet has no row or its normalized
\* headers hold no alias of date or no alias of hours; the row loop is
\* entered, and a dictionary returned, only with both columns resolved.
C22_NeedsDateAndHours ==
    xl.pc # "open" =>
       /\ (\/ xl.nrows = 0
           \/ xl.headers \cap {"date", "day_date", "work_date"} = {}
           \/ xl.headers \cap {"hours", "hours_worked", "time",
                               "duration"} = {})
          => xl.pc = "none"
       /\ xl.pc \in {"rows", "done"} =>
             /\ {"date", "hours"} \subseteq xl.cols
             /\ xl.headers \cap {"date", "day_date", "work_date"} # {}
             /\ xl.headers \cap {"hours", "hours_worked", "time",
                                 "duration"} # {}

\* a readable sheet with rows and the columns date, day and client: the
\* hours column is missing and None is returned
C22_Witness ==
    /\ xl.pc = "none"
    /\ xl.readable /\ xl.nrows > 0
    /\ xl.headers = {"date", "day", "client"}

\* C27: after an OCRExitCode other than 1 without a transient marker the
\* attempt loop is not gone through again.
C27_NonTransientNotRetried ==
    ocrCall.last_error = "nontransient" => ocrCall.pc # "loop"

\* C28: with a start date and a matched Leave row the PTO entries are as
\* many as the columns of the row with hours above zero, and their dates
\* are pairwise distinct: no candidate is dropped as a duplicate.
C28_NoDuplicateLeave ==
    (/\ grid.pc \notin {"dates", "leave"}
     /\ Matched(grid.start_date) /\ Matched(grid.ocr.leave))
    => /\ Len(grid.pto_entries)
             = Cardinality({c \in 1..7 : grid.ocr.leave.v[c] > 0})
       /\ \A m, n \in 1..Len(grid.pto_entries) :
             grid.pto_entries[m].date = grid.pto_entries[n].date => m = n

\* the Leave row has hours in its seven columns: seven PTO entries
C28_Witness ==
    /\ grid.pc = "done"
    /\ grid.ocr.leave = Row(<<400, 400, 400, 400, 400, 400, 400>>)
    /\ Len(grid.pto_entries) = 7
    /\ grid.pto_entries[7].date = AddDays(grid.start_date, 6)

\* C30: when OCR_KEY is not set or the image cannot be opened the call
\* raises with no POST sent and the local extraction not run, whatever
\* use_local_fallback is; the local extraction is run only after passes of
\* the attempt loop.
C30_NoFallbackBeforeLoop ==
    /\ ocrCall.last_error \in {"key", "file"} =>
          /\ ocrCall.pc = "raised"
          /\ ocrCall.posts = 0
          /\ ocrCall.fallback = "none"
    /\ ocrCall.pc = "after" \/ ocrCall.fallback # "none" =>
          ocrCall.attempt > 1 /\ ocrCall.posts >= 1

\* OCR_KEY is not set and use_local_fallback is: the call has raised
C30_Witness ==
    /\ ocrCall.pc = "raised"
    /\ ocrCall.last_error = "key"
    /\ ocrCall.use_local_fallback
    /\ ocrCall.posts = 0


\* C29: when process_timesheet_extraction has returned, the detector's
\* connection is not open: each return after a connect() that succeeded
\* comes after disconnect().
C29_DisconnectBeforeReturn == pc = "done" => ~imapOpen


\* the client the projects of one sender give for a project name: the
\* title-cased key of the sender's first project of that name, case and
\* surrounding whitespace apart
ClientOfSender(project_name, sender_email, employee_mapping) ==
    LET projects == MapGet(employee_mapping, clean_email(sender_email)).projects
        hits == {j \in 1..Len(projects) :
                    /\ projects[j].project # <<>>
                    /\ StrLower(StrStrip(projects[j].project))
                          = StrLower(StrStrip(project_name))}
    IN  IF hits = {} THEN Name("Unknown Client")
        ELSE Str(StrTitle(projects[CHOOSE j \in hits :
                                      \A h \in hits : j <= h].client))

\* C25: the client of each entry of an image attachment is the one the
\* projects of the attachment's own sender give for the extracted project
\* name, and "Unknown Client" when the sender has no project of that name.
C25_ClientOfSenderOnly ==
    \A i \in 1..Len(extracted) :
        visited[origin[i]].read = "image" =>
            extracted[i].client =
                ClientOfSender(extracted[i].project.s,
                               visited[origin[i]].sender, mapping)


\* the entries of extracted that attachment n gave, in order
EntriesOf(n) ==
    SelectSeq([i \in 1..Len(extracted) |-> [e |-> extracted[i], o |-> origin[i]]],
              LAMBDA x : x.o = n)

\* the calls of the sink for attachment n
CallsOf(n) == {c \in 1..Len(sinkCalls) : sinkCalls[c].doc = n}

\* C23: a call of the sink that failed takes nothing from the batch: the
\* entries handed to it are the attachment's entries in all_extracted_data,
\* no error is recorded for it, the loops can go on, and a batch that ran
\* its loops with no exception from outside the attachments went through
\* every attachment, succeeded and returns the entries.
C23_SinkFailureNonFatal ==
    (\E c \in 1..Len(sinkCalls) : ~sinkCalls[c].ok) =>
        /\ \A c \in 1..Len(sinkCalls) :
              ~sinkCalls[c].ok =>
                 /\ [i \in 1..Len(EntriesOf(sinkCalls[c].doc)) |->
                        EntriesOf(sinkCalls[c].doc)[i].e] = sinkCalls[c].entries
                 /\ sinkCalls[c].doc \notin Recorded
        /\ ~Done => ENABLED Next
        /\ (Done /\ ~escaped) =>
              /\ Len(visited) = planned
              /\ results.success
              /\ results.extracted_data = extracted

\* the sink failed for the first attachment; the batch went on to a second
\* attachment and returned the entries of both
C23_Witness ==
    /\ Done /\ results.success
    /\ Len(visited) = 2
    /\ Len(sinkCalls) = 2
    /\ ~sinkCalls[1].ok /\ sinkCalls[1].doc = 1
    /\ Len(results.extracted_data) = 2
    /\ results.extracted_data[1] = sinkCalls[1].entries[1]

DateNumbers == {1, 2, 13, 30}

DateStrings ==
    {[shape |-> "string", layout |-> l, a |-> a, b |-> b, y |-> 2024,
      zone |-> z] :
        l \in {"Y-a-bTH:M:S", "Y-a-b", "a/b/Y", "blank", "other"},
        a \in DateNumbers, b \in DateNumbers, z \in {"", "Z", "+05:00", "-05:00"}}

DateInputs ==
    {[shape |-> "none"]}
    \cup {[shape |-> "datetime", value |-> Stamp(1, 15, 2024)],
          [shape |-> "date", value |-> Stamp(1, 15, 2024)]}
    \cup {[shape |-> "object", attrs |-> as] :
             as \in {{}, {"year", "month", "day"},
                     {"year", "month", "day", "hour"}}}
    \cup {[shape |-> "number", float |-> "finite", n |-> n] :
             n \in {0, 1705276, 1705276800}}
    \cup {[shape |-> "number", float |-> f, n |-> 0] : f \in {"nan", "inf"}}
    \cup DateStrings
    \cup {[shape |-> "dict", keys |-> ks, y |-> 2024, m |-> m, d |-> 30] :
             ks \in {{}, {"year"}, {"year", "month", "day"}},
             m \in DateNumbers}
    \cup {[shape |-> "list", items |-> it] :
             it \in {<<>>, <<2024, 1>>, <<2024, 1, 15>>, <<2024, 13, 1>>,
                     <<2024, 2, 30, 10>>}}
    \cup {[shape |-> "other", type |-> t] : t \in {"bytes", "set"}}

Returned(call, value) ==
    [pc |-> "returned", input |-> call.input, value |-> value]

Raised(call, error, names_type) ==
    [pc |-> "raised", input |-> call.input, error |-> error,
     names_type |-> names_type]

\* datetime(year, month, day, ...): ValueError for a day that is none
DatetimeOf(call, y, m, d) ==
    IF ValidDate(m, d, y) THEN Returned(call, Stamp(m, d, y))
    ELSE Raised(call, "ValueError", FALSE)

\* lines 124-135: with a T in the string a zone suffix is cut off; without
\* one the string is left as it is
ZoneLeft(str) == IF str.layout = "Y-a-bTH:M:S" THEN "" ELSE str.zone

\* lines 137-162: the formats are tried in order, %m/%d/%Y before
\* %d/%m/%Y, and the first strptime that succeeds gives the value
ParseDateString(call, str) ==
    IF str.layout = "blank" THEN Raised(call, "ValueError", FALSE)
    ELSE IF str.layout = "other" \/ ZoneLeft(str) # ""
    THEN Raised(call, "ValueError", FALSE)
    ELSE IF str.layout \in {"Y-a-bTH:M:S", "Y-a-b"}
    THEN DatetimeOf(call, str.y, str.a, str.b)
    ELSE IF ValidDate(str.a, str.b, str.y)
    THEN Returned(call, Stamp(str.a, str.b, str.y))
    ELSE DatetimeOf(call, str.y, str.b, str.a)

\* lines 108-117: above 1e10 the number is taken for milliseconds; nan
\* gives ValueError, which is caught and raised again, inf OverflowError,
\* which is not caught
ParseTimestamp(call, x) ==
    CASE x.float = "nan" -> Raised(call, "ValueError", FALSE)
      [] x.float = "inf" -> Raised(call, "OverflowError", FALSE)
      [] OTHER -> Returned(call, [k |-> "epoch",
                                  ks |-> IF x.n > 10000000 THEN x.n \div 1000
                                         ELSE x.n])

\* _parse_date_input (lines 89-206)
parse_date_input(call) ==
    LET x == call.input
    IN  CASE x.shape = "none" -> Raised(call, "ValueError", FALSE)
          [] x.shape = "datetime" -> Returned(call, x.value)
          [] x.shape = "date" -> Returned(call, x.value)
          [] x.shape = "object" /\ {"year", "month", "day"} \subseteq x.attrs ->
                IF "hour" \in x.attrs THEN Returned(call, x)
                ELSE Raised(call, "TypeError", TRUE)
          [] x.shape = "number" -> ParseTimestamp(call, x)
          [] x.shape = "string" -> ParseDateString(call, x)
          [] x.shape = "dict" ->
                IF {"year", "month", "day"} \subseteq x.keys
                THEN DatetimeOf(call, x.y, x.m, x.d)
                ELSE Raised(call, "ValueError", FALSE)
          [] x.shape = "list" ->
                IF Len(x.items) >= 3
                THEN DatetimeOf(call, x.items[1], x.items[2], x.items[3])
                ELSE Raised(call, "ValueError", FALSE)
          [] OTHER -> Raised(call, "TypeError", TRUE)

DateInit ==
    /\ OrchIdle /\ ident = Idle /\ xl = Idle /\ pdf = Idle /\ ocrCall = Idle
    /\ grid = Idle
    /\ dateCall \in {[pc |-> "start", input |-> x] : x \in DateInputs}

DateParse ==
    /\ dateCall.pc = "start"
    /\ dateCall' = parse_date_input(dateCall)
    /\ UNCHANGED <<orchVars, ident, xl, pdf, ocrCall, grid>>

DateNext == DateParse

SpecDate == DateInit /\ [][DateNext]_vars

\* the shapes the normalizer takes: date and datetime objects, numbers,
\* strings, mappings and lists
AcceptedShape(x) ==
    x.shape \in {"datetime", "date", "number", "string", "dict", "list"}

\* C26: the call on an input of no accepted shape raises a TypeError that
\* names the type of the input, and what a call returns is a date.
C26_NeverGuesses ==
    /\ (dateCall.pc # "start" /\ ~AcceptedShape(dateCall.input)) =>
          /\ dateCall.pc = "raised"
          /\ dateCall.error = "TypeError"
          /\ dateCall.names_type
    /\ dateCall.pc = "returned" =>
          \/ dateCall.value.k = "epoch"
          \/ dateCall.value.k = "ts" /\ ValidDate(dateCall.value.m,
                                                  dateCall.value.d,
                                                  dateCall.value.y)

=============================================================================
